---- MODULE Spec2Model ----
(***************************************************************************)
(* A model of gitc: the object codecs, the object store, the staging       *)
(* index, the tree builder and the status reconciler.                      *)
(*                                                                         *)
(* Byte strings are sequences of integers 0..255.  A PathBuf is the byte   *)
(* string of its OsString, a Hash is a sequence of HASH_BYTE_LEN bytes.    *)
(* A Result is a record with a boolean field ok.                           *)
(***************************************************************************)
EXTENDS Integers, Sequences, FiniteSets, TLC

VARIABLES
    \* ---- determine_statuses (commands/status/status.rs) ----
    pc,                   \* position of the status run: idle, wt, index, commit, new, done
    commit_data,          \* CommitData: path -> Hash, consumed by the run
    index_data,           \* IndexData: path -> [hash, cache], consumed by the run
    working_tree_data,    \* Vec<FileData> still to be iterated
    file_statuses,        \* Vec<FileWithStatus> built so far
    possibly_moved_files, \* HashMap<Hash, (PathBuf, StageStatus)>
    file_hash,            \* the `file_hash` local, kept across iterations
    index_hash,           \* the outer `index_hash` local
    reads,                \* history: paths whose reader was read by hash_if_not_computed
    given,                \* history: the three inputs the run started from
    hashes_used,          \* history: path -> the value of file_hash used for it when it was deferred
    \* ---- an object taken through its encoder and its decoder ----
    codec_pc,             \* idle, start, encoded, decoded
    codec_in,             \* the object
    codec_bytes,          \* Result of as_bytes
    codec_out,            \* Result of from_bytes
    \* ---- the object store (fs/object.rs, commands/cat_file.rs) ----
    store_objects,        \* the objects directory: <<dir, file name>> -> bytes of the file
    store_written,        \* history: Hash -> the object a writer was given for it
    store_last,           \* history: the last operation, its argument and its result
    store_before,         \* history: store_objects before the last operation
    \* ---- an index built, written and read back (index/) ----
    ix_pc,                \* idle, building, built, encoded, decoded
    ix_builder,           \* the Index inside the IndexBuilder
    ix_index,             \* the Index returned by build
    ix_bytes,             \* its as_bytes
    ix_decoded,           \* Result of Index::from_bytes
    \* ---- a tree built from added objects (object/tree/builder.rs) ----
    tb_pc,                \* idle, adding, built
    tb_files,             \* the files of the working tree (the current directory)
    tb_builder,           \* the TreeBuilder
    tb_added,             \* history: the (mode, path, hash) triples added
    tb_tree,              \* the Object returned by build
    \* ---- a repository and the commands run in it (commands/) ----
    repo,                 \* the files: working tree, index, objects, HEAD, refs
    repo_edits,           \* how many times the user has written or deleted a file
    repo_last,            \* history: the last command, its input and its result
    \* ---- two processes writing one object (fs/object.rs, write_to_object_dir) ----
    wr_given,             \* the object bytes and the hash both processes were given
    wr_procs,             \* process -> its position in write_to_object_dir, its file offset
    wr_dirs,              \* the directories under the objects directory
    wr_files,             \* the files under the objects directory: <<dir, name>> -> bytes
    \* ---- an index entry and the calls made on it (index/index_entry.rs) ----
    ie_entry,             \* the IndexEntry
    ie_calls              \* history: the entry as it was made, and the calls made on it

statusVars == <<pc, commit_data, index_data, working_tree_data, file_statuses,
                possibly_moved_files, file_hash, index_hash, reads, given, hashes_used>>

codecVars == <<codec_pc, codec_in, codec_bytes, codec_out>>

storeVars == <<store_objects, store_written, store_last, store_before>>

indexVars == <<ix_pc, ix_builder, ix_index, ix_bytes, ix_decoded>>

treeVars == <<tb_pc, tb_files, tb_builder, tb_added, tb_tree>>

repoVars == <<repo, repo_edits, repo_last>>

writerVars == <<wr_given, wr_procs, wr_dirs, wr_files>>

entryVars == <<ie_entry, ie_calls>>

vars == <<statusVars, codecVars, storeVars, indexVars, treeVars, repoVars, writerVars,
          entryVars>>

notStatusVars == <<codecVars, storeVars, indexVars, treeVars, repoVars,
    writerVars, entryVars>>
notCodecVars == <<statusVars, storeVars, indexVars, treeVars, repoVars,
    writerVars, entryVars>>
notStoreVars == <<statusVars, codecVars, indexVars, treeVars, repoVars,
    writerVars, entryVars>>
notIndexVars == <<statusVars, codecVars, storeVars, treeVars, repoVars,
    writerVars, entryVars>>
notTreeVars == <<statusVars, codecVars, storeVars, indexVars, repoVars,
    writerVars, entryVars>>
notRepoVars == <<statusVars, codecVars, storeVars, indexVars, treeVars,
    writerVars, entryVars>>
notWriterVars == <<statusVars, codecVars, storeVars, indexVars, treeVars, repoVars,
    entryVars>>
notEntryVars == <<statusVars, codecVars, storeVars, indexVars, treeVars, repoVars,
    writerVars>>

----------------------------------------------------------------------------
(* Bytes and text *)

SPACE_BYTE == 32
NULL_BYTE == 0
SLASH_BYTE == 47
NEWLINE_BYTE == 10
ZERO_DIGIT == 48

RECURSIVE ToDecimal(_)
\* format!("{}", n) of an unsigned integer
ToDecimal(n) ==
    IF n < 10 THEN <<ZERO_DIGIT + n>>
    ELSE Append(ToDecimal(n \div 10), ZERO_DIGIT + (n % 10))

IsDigit(b) == b >= ZERO_DIGIT /\ b <= ZERO_DIGIT + 9

RECURSIVE DecimalValue(_, _, _)
DecimalValue(s, i, acc) ==
    IF i > Len(s) THEN acc
    ELSE DecimalValue(s, i + 1, acc * 10 + (s[i] - ZERO_DIGIT))

\* str::parse::<usize>() / parse::<u32>(): one optional '+', then one or more digits
ParseDecimal(s) ==
    LET body == IF Len(s) > 0 /\ s[1] = 43 THEN Tail(s) ELSE s
    IN IF Len(body) = 0 \/ \E i \in 1..Len(body) : ~IsDigit(body[i])
       THEN [ok |-> FALSE, value |-> 0]
       ELSE [ok |-> TRUE, value |-> DecimalValue(body, 1, 0)]

\* position of the first `b` in s at or after i, 0 when there is none
IndexOfFrom(s, b, i) ==
    LET at == {k \in i..Len(s) : s[k] = b}
    IN IF at = {} THEN 0 ELSE CHOOSE k \in at : \A j \in at : k <= j

RECURSIVE SumSeq(_, _, _)
\* the sum of s[lo..hi]
SumSeq(s, lo, hi) ==
    IF lo > hi THEN 0
    ELSE IF lo = hi THEN s[lo]
    ELSE LET mid == (lo + hi) \div 2
         IN SumSeq(s, lo, mid) + SumSeq(s, mid + 1, hi)

----------------------------------------------------------------------------
(* Hash (hashing.rs) *)

HASH_BYTE_LEN == 20

\* a digest of the bytes and their positions
Digest(s, mult, modulus) ==
    (Len(s) + SumSeq([i \in 1..Len(s) |->
                        ((s[i] + 1) * (((i * mult) % modulus) + 1)) % modulus],
                     1, Len(s))) % modulus

\* Hash::compute.  SHA-1 is replaced by a 20-byte digest built from two
\* digests of the input: deterministic, and different for the different byte
\* strings the model hashes.
HashCompute(bytes) ==
    LET d1 == Digest(bytes, 31, 65521)
        d2 == Digest(bytes, 131, 65519)
    IN [k \in 1..HASH_BYTE_LEN |->
          IF k = 1 THEN d1 % 256
          ELSE IF k = 2 THEN d1 \div 256
          ELSE IF k = 3 THEN d2 % 256
          ELSE IF k = 4 THEN d2 \div 256
          ELSE (d1 * k + d2 + k) % 256]

\* Hash::default(): twenty zero bytes
HashDefault == [k \in 1..HASH_BYTE_LEN |-> 0]

----------------------------------------------------------------------------
(* Blob encoding (object/blob.rs) *)

BLOB_STRING == <<98, 108, 111, 98>>

\* blob_as_bytes: "blob {len}\0{data}"
blob_as_bytes(data) ==
    BLOB_STRING \o <<SPACE_BYTE>> \o ToDecimal(Len(data)) \o <<NULL_BYTE>> \o data

\* the cursor after BufRead::read_until(b): buf holds the bytes read, the
\* delimiter included when it was found; pos is the next position
ReadUntil(s, pos, b) ==
    LET k == IndexOfFrom(s, b, pos)
    IN IF k = 0
       THEN [buf |-> SubSeq(s, pos, Len(s)), pos |-> Len(s) + 1, found |-> FALSE]
       ELSE [buf |-> SubSeq(s, pos, k), pos |-> k + 1, found |-> TRUE]

\* Vec::pop() of the buffer read, for the `buf.pop() != Some(b)` checks
WithoutLast(buf) == SubSeq(buf, 1, Len(buf) - 1)

\* blob_from_bytes (lines 81-127)
blob_from_bytes(bytes) ==
    LET kind == ReadUntil(bytes, 1, SPACE_BYTE)
        len == ReadUntil(bytes, kind.pos, NULL_BYTE)
        data_len == ParseDecimal(WithoutLast(len.buf))
        data_buf == SubSeq(bytes, len.pos, Len(bytes))
    IN IF kind.buf # BLOB_STRING THEN [ok |-> FALSE, error |-> "object type is not blob"]
       ELSE IF ~len.found THEN [ok |-> FALSE, error |-> "expected null byte"]
       ELSE IF ~data_len.ok THEN [ok |-> FALSE, error |-> "length is not a number"]
       ELSE IF data_len.value # Len(data_buf) THEN [ok |-> FALSE, error |-> "length mismatch"]
       ELSE [ok |-> TRUE, object |-> [kind |-> "blob", data |-> data_buf]]

----------------------------------------------------------------------------
(* Hash as text (hashing.rs) *)

HexDigit(n) == IF n < 10 THEN ZERO_DIGIT + n ELSE 87 + n

\* impl Display for Hash: hex::encode, lowercase
HashToString(hash) ==
    [i \in 1..(2 * Len(hash)) |->
        IF i % 2 = 1 THEN HexDigit(hash[(i + 1) \div 2] \div 16)
        ELSE HexDigit(hash[i \div 2] % 16)]

IsHexChar(c) ==
    \/ IsDigit(c)
    \/ (c >= 97 /\ c <= 102)
    \/ (c >= 65 /\ c <= 70)

HexValue(c) ==
    IF IsDigit(c) THEN c - ZERO_DIGIT
    ELSE IF c >= 97 THEN c - 87
    ELSE c - 55

\* impl FromStr for Hash: hex::decode, then TryFrom<Vec<u8>>, which copies the
\* bytes into a zeroed array and fails only when there are more than 20
HashFromStr(str) ==
    IF Len(str) % 2 # 0 \/ \E i \in 1..Len(str) : ~IsHexChar(str[i])
    THEN [ok |-> FALSE, hash |-> HashDefault]
    ELSE LET n == Len(str) \div 2
             decoded == [i \in 1..n |-> HexValue(str[2 * i - 1]) * 16 + HexValue(str[2 * i])]
         IN IF n > HASH_BYTE_LEN
            THEN [ok |-> FALSE, hash |-> HashDefault]
            ELSE [ok |-> TRUE,
                  hash |-> [i \in 1..HASH_BYTE_LEN |-> IF i <= n THEN decoded[i] ELSE 0]]

----------------------------------------------------------------------------
(* Text helpers (std) *)

\* bytes that never occur in UTF-8; the texts of the model are ASCII plus these
NeverUtf8(b) == b >= 248

REPLACEMENT_CHARACTER == <<239, 191, 189>>

RECURSIVE ToStringLossy(_)
\* String::from_utf8_lossy / Path::to_string_lossy on the bytes of the model
ToStringLossy(s) ==
    IF s = <<>> THEN <<>>
    ELSE (IF NeverUtf8(Head(s)) THEN REPLACEMENT_CHARACTER ELSE <<Head(s)>>)
         \o ToStringLossy(Tail(s))

\* std::str::from_utf8 succeeds
IsUtf8(s) == \A i \in 1..Len(s) : ~NeverUtf8(s[i])

RECURSIVE SplitOn(_, _)
\* str::split(c): the pieces between the separators, empty pieces included
SplitOn(s, c) ==
    LET k == IndexOfFrom(s, c, 1)
    IN IF k = 0 THEN <<s>>
       ELSE <<SubSeq(s, 1, k - 1)>> \o SplitOn(SubSeq(s, k + 1, Len(s)), c)

CARRIAGE_RETURN == 13

StripCr(line) ==
    IF Len(line) > 0 /\ line[Len(line)] = CARRIAGE_RETURN THEN WithoutLast(line) ELSE line

\* str::lines(): split at "\n", a final empty piece dropped; a "\r" before the
\* "\n" that ends a line is dropped with it
Lines(s) ==
    LET pieces == SplitOn(s, NEWLINE_BYTE)
        n == Len(pieces)
        kept == IF pieces[n] = <<>> THEN WithoutLast(pieces) ELSE pieces
    IN [i \in 1..Len(kept) |-> IF i < n THEN StripCr(kept[i]) ELSE kept[i]]

RECURSIVE JoinWith(_, _)
\* [T]::join(sep)
JoinWith(pieces, sep) ==
    IF pieces = <<>> THEN <<>>
    ELSE IF Len(pieces) = 1 THEN pieces[1]
    ELSE pieces[1] \o sep \o JoinWith(Tail(pieces), sep)

RECURSIVE Concat(_)
Concat(pieces) == IF pieces = <<>> THEN <<>> ELSE Head(pieces) \o Concat(Tail(pieces))

----------------------------------------------------------------------------
(* Tree encoding (object/tree/tree.rs) *)

TREE_STRING == <<116, 114, 101, 101>>

TreeEntry(mode, path, hash) == [mode |-> mode, path |-> path, hash |-> hash]

\* lines 57-60: "{mode} {path}\0" and the 20 bytes of the hash
tree_entry_bytes(e) ==
    ToDecimal(e.mode) \o <<SPACE_BYTE>> \o ToStringLossy(e.path) \o <<NULL_BYTE>> \o e.hash

\* tree::as_bytes (lines 54-68)
tree_as_bytes(entries) ==
    LET entries_bytes == Concat([i \in 1..Len(entries) |-> tree_entry_bytes(entries[i])])
    IN TREE_STRING \o <<SPACE_BYTE>> \o ToDecimal(Len(entries_bytes)) \o <<NULL_BYTE>>
       \o entries_bytes

RECURSIVE tree_read_entries(_, _, _, _)
\* the loop of tree::from_bytes (lines 105-146)
tree_read_entries(bytes, pos, entries, actual_len) ==
    LET mode == ReadUntil(bytes, pos, SPACE_BYTE)
        path == ReadUntil(bytes, mode.pos, NULL_BYTE)
        mode_value == ParseDecimal(ToStringLossy(WithoutLast(mode.buf)))
    IN IF Len(mode.buf) = 0
       THEN [ok |-> TRUE, entries |-> entries, actual_len |-> actual_len]
       ELSE IF ~mode.found THEN [ok |-> FALSE, error |-> "expected space after mode"]
       ELSE IF ~path.found THEN [ok |-> FALSE, error |-> "expected null byte after path"]
       ELSE IF path.pos + HASH_BYTE_LEN - 1 > Len(bytes)
            THEN [ok |-> FALSE, error |-> "could not read tree entry hash"]
       ELSE IF ~mode_value.ok THEN [ok |-> FALSE, error |-> "could not get mode"]
       ELSE tree_read_entries(
                bytes, path.pos + HASH_BYTE_LEN,
                Append(entries,
                       TreeEntry(mode_value.value, WithoutLast(path.buf),
                                 SubSeq(bytes, path.pos, path.pos + HASH_BYTE_LEN - 1))),
                actual_len + Len(mode.buf) + Len(path.buf) + HASH_BYTE_LEN)

\* tree::from_bytes (lines 70-157)
tree_from_bytes(bytes) ==
    LET kind == ReadUntil(bytes, 1, SPACE_BYTE)
        len == ReadUntil(bytes, kind.pos, NULL_BYTE)
        data_len == ParseDecimal(WithoutLast(len.buf))
        read == tree_read_entries(bytes, len.pos, <<>>, 0)
    IN IF ~kind.found THEN [ok |-> FALSE, error |-> "expected space after object type"]
       ELSE IF WithoutLast(kind.buf) # TREE_STRING THEN [ok |-> FALSE, error |-> "not a tree"]
       ELSE IF ~len.found THEN [ok |-> FALSE, error |-> "expected null byte"]
       ELSE IF ~IsUtf8(WithoutLast(len.buf)) \/ ~data_len.ok
            THEN [ok |-> FALSE, error |-> "length is not a number"]
       ELSE IF ~read.ok THEN read
       ELSE IF read.actual_len # data_len.value THEN [ok |-> FALSE, error |-> "length mismatch"]
       ELSE [ok |-> TRUE, object |-> [kind |-> "tree", entries |-> read.entries]]

----------------------------------------------------------------------------
(* Commit encoding (object/commit/commit.rs) *)

COMMIT_STR == <<99, 111, 109, 109, 105, 116>>
\* Object::COMMIT_STRING, the type tag of the header
COMMIT_STRING == COMMIT_STR
TREE_STR == <<116, 114, 101, 101>>
PARENT_STR == <<112, 97, 114, 101, 110, 116>>
AUTHOR_STR == <<97, 117, 116, 104, 111, 114>>
COMMITTER_STR == <<99, 111, 109, 109, 105, 116, 116, 101, 114>>

PLUS_SIGN == 43
MINUS_SIGN == 45

\* a SystemTime as the whole seconds and the nanoseconds since UNIX_EPOCH; a
\* UtcOffset as its hours, minutes and seconds, which share one sign
Timestamp(secs, nanos) == [secs |-> secs, nanos |-> nanos]
UtcOffset(hours, minutes, seconds) == [hours |-> hours, minutes |-> minutes, seconds |-> seconds]

CommitUser(kind, identifier, timestamp, timezone) ==
    [kind |-> kind, identifier |-> identifier, timestamp |-> timestamp, timezone |-> timezone]

Commit(tree, parents, author, committer, message) ==
    [kind |-> "commit", tree |-> tree, parents |-> parents, author |-> author,
     committer |-> committer, message |-> message]

\* impl Display for CommitUserKind (commit_user.rs)
CommitUserKindString(kind) == IF kind = "Author" THEN AUTHOR_STR ELSE COMMITTER_STR

Abs(n) == IF n < 0 THEN 0 - n ELSE n

Pad2(n) == <<ZERO_DIGIT + (n \div 10), ZERO_DIGIT + (n % 10)>>

\* UtcOffset::format(TIMEZONE_FORMAT): "[offset_hour sign:mandatory][offset_minute]"
FormatTimezone(tz) ==
    <<IF tz.hours < 0 \/ tz.minutes < 0 \/ tz.seconds < 0 THEN MINUS_SIGN ELSE PLUS_SIGN>>
    \o Pad2(Abs(tz.hours)) \o Pad2(Abs(tz.minutes))

\* UtcOffset::parse(s, TIMEZONE_FORMAT)
ParseTimezone(str) ==
    IF \/ Len(str) # 5
       \/ str[1] \notin {PLUS_SIGN, MINUS_SIGN}
       \/ \E i \in 2..5 : ~IsDigit(str[i])
    THEN [ok |-> FALSE, value |-> UtcOffset(0, 0, 0)]
    ELSE LET hh == DecimalValue(SubSeq(str, 2, 3), 1, 0)
             mm == DecimalValue(SubSeq(str, 4, 5), 1, 0)
             sign == IF str[1] = MINUS_SIGN THEN 0 - 1 ELSE 1
         IN IF hh > 25 \/ mm > 59
            THEN [ok |-> FALSE, value |-> UtcOffset(0, 0, 0)]
            ELSE [ok |-> TRUE, value |-> UtcOffset(sign * hh, sign * mm, 0)]

\* format_commituser (lines 54-67); duration_since fails before the epoch
format_commituser(user) ==
    IF user.timestamp.secs < 0
    THEN [ok |-> FALSE, str |-> <<>>]
    ELSE [ok |-> TRUE,
          str |-> CommitUserKindString(user.kind) \o <<SPACE_BYTE>> \o user.identifier
                  \o <<SPACE_BYTE>> \o ToDecimal(user.timestamp.secs)
                  \o <<SPACE_BYTE>> \o FormatTimezone(user.timezone) \o <<NEWLINE_BYTE>>]

\* format_data (lines 47-86)
format_data(tree_hash, parents, author, commiter, message) ==
    LET a == format_commituser(author)
        c == format_commituser(commiter)
    IN IF ~a.ok \/ ~c.ok
       THEN [ok |-> FALSE, str |-> <<>>]
       ELSE [ok |-> TRUE,
             str |-> TREE_STR \o <<SPACE_BYTE>> \o HashToString(tree_hash) \o <<NEWLINE_BYTE>>
                     \o Concat([i \in 1..Len(parents) |->
                                  PARENT_STR \o <<SPACE_BYTE>> \o HashToString(parents[i])
                                  \o <<NEWLINE_BYTE>>])
                     \o a.str \o c.str
                     \o <<NEWLINE_BYTE>> \o message \o <<NEWLINE_BYTE>>]

\* commit::as_bytes (lines 27-45)
commit_as_bytes(tree_hash, parents, author, commiter, message) ==
    LET commit_str == format_data(tree_hash, parents, author, commiter, message)
    IN IF ~commit_str.ok
       THEN [ok |-> FALSE, bytes |-> <<>>]
       ELSE [ok |-> TRUE,
             bytes |-> COMMIT_STRING \o <<SPACE_BYTE>> \o ToDecimal(Len(commit_str.str))
                       \o <<NULL_BYTE>> \o commit_str.str]

\* EasyRead::read_until_checked (utils/cursor.rs): the bytes before the
\* delimiter, an error when the delimiter is not there
read_until_checked(bytes, pos, b) ==
    LET r == ReadUntil(bytes, pos, b)
    IN IF r.found
       THEN [ok |-> TRUE, buf |-> WithoutLast(r.buf), pos |-> r.pos]
       ELSE [ok |-> FALSE, buf |-> <<>>, pos |-> r.pos]

Failed(error) == [ok |-> FALSE, error |-> error]

RECURSIVE commit_read_parents(_, _, _)
\* the loop of lines 153-170, entered with the words of line i: the parents
\* read, and the line and words the loop stopped at
commit_read_parents(lines, i, parents) ==
    LET splitted == SplitOn(lines[i], SPACE_BYTE)
    IN IF splitted[1] # PARENT_STR
       THEN [ok |-> TRUE, parents |-> parents, line |-> i, splitted |-> splitted]
       ELSE IF Len(splitted) < 2 THEN Failed("expected hash after parent")
       ELSE LET hash == HashFromStr(splitted[2])
            IN IF ~hash.ok THEN Failed("could not create a hash from the parent hash string")
               ELSE IF i + 1 > Len(lines) THEN Failed("commit file ended abruptly")
               ELSE commit_read_parents(lines, i + 1, Append(parents, hash.hash))

\* commituser_from_splitted (lines 175-207): `words` is what is left of the
\* line after its first word.  With fewer than two words `word_amount - 2`
\* underflows and the function panics.
commituser_from_splitted(words, kind) ==
    LET word_amount == Len(words)
    IN IF word_amount < 2 THEN Failed("panic")
       ELSE LET identifier == JoinWith(SubSeq(words, 1, word_amount - 2), <<SPACE_BYTE>>)
                timestamp_u64 == ParseDecimal(words[word_amount - 1])
                timezone == ParseTimezone(words[word_amount])
            IN IF identifier = <<>> THEN Failed("expected identifier when reading author")
               ELSE IF ~timestamp_u64.ok THEN Failed("could not parse timestamp to a number")
               ELSE IF ~timezone.ok THEN Failed("author timezone was invalid")
               ELSE [ok |-> TRUE,
                     user |-> CommitUser(kind, identifier, Timestamp(timestamp_u64.value, 0),
                                         timezone.value)]

\* lines 118-238: the commit read from the text after the header
commit_from_str(commit_str) ==
    LET lines == Lines(commit_str)
        first == SplitOn(lines[1], SPACE_BYTE)
        tree_hash == HashFromStr(first[2])
        read == commit_read_parents(lines, 2, <<>>)
        author == commituser_from_splitted(Tail(read.splitted), "Author")
        next == SplitOn(lines[read.line + 1], SPACE_BYTE)
        committer == commituser_from_splitted(Tail(next), "Committer")
    IN IF Len(lines) = 0 THEN Failed("commit object did not have any lines")
       ELSE IF first[1] # TREE_STR THEN Failed("expected commit object to start with tree")
       ELSE IF Len(first) < 2 THEN Failed("expected hash after tree")
       ELSE IF ~tree_hash.ok THEN Failed("could not create a hash from the tree hash string")
       ELSE IF Len(lines) < 2 THEN Failed("commit object only had one line")
       ELSE IF ~read.ok THEN read
       ELSE IF read.splitted[1] # AUTHOR_STR THEN Failed("expected author")
       ELSE IF ~author.ok THEN author
       ELSE IF read.line + 1 > Len(lines) THEN Failed("commit file ended abruptly")
       ELSE IF next[1] # COMMITTER_STR THEN Failed("expected committer")
       ELSE IF ~committer.ok THEN committer
       ELSE [ok |-> TRUE,
             object |-> Commit(tree_hash.hash, read.parents, author.user, committer.user,
                               JoinWith(SubSeq(lines, read.line + 3, Len(lines)),
                                        <<NEWLINE_BYTE>>))]

\* commit::from_bytes (lines 95-239); the length of the header is parsed and
\* not compared with anything
commit_from_bytes(bytes) ==
    LET kind == read_until_checked(bytes, 1, SPACE_BYTE)
        length_str == read_until_checked(bytes, kind.pos, NULL_BYTE)
        length == ParseDecimal(ToStringLossy(length_str.buf))
        remaining == SubSeq(bytes, length_str.pos, Len(bytes))
    IN IF ~kind.ok THEN Failed("expected space")
       ELSE IF kind.buf # COMMIT_STRING THEN Failed("file is not a commit string")
       ELSE IF ~length_str.ok THEN Failed("expected null byte")
       ELSE IF ~length.ok THEN Failed("length was invalid")
       ELSE IF ~IsUtf8(remaining) THEN Failed("could not form a string from the given bytes")
       ELSE commit_from_str(remaining)

----------------------------------------------------------------------------
(* zlib (utils/zlib.rs) *)

\* the two header bytes flate2 writes for Compression::default()
ZLIB_CMF == 120
ZLIB_FLG == 156
ADLER_MODULUS == 65521
\* the header byte of a final stored deflate block
STORED_FINAL_BLOCK == 1

\* the Adler-32 trailer, big-endian: a is one plus the sum of the bytes, b the
\* sum of the values a takes
Adler32(s) ==
    LET n == Len(s)
        a == (1 + SumSeq(s, 1, n)) % ADLER_MODULUS
        b == (n + SumSeq([i \in 1..n |-> ((n - i + 1) * s[i]) % ADLER_MODULUS], 1, n))
             % ADLER_MODULUS
    IN <<b \div 256, b % 256, a \div 256, a % 256>>

\* zlib::compress: a zlib stream holding the bytes.  The deflate data is one
\* stored block: header byte, the length and its complement (little-endian),
\* the bytes.
zlib_compress(bytes) ==
    LET len == Len(bytes)
    IN <<ZLIB_CMF, ZLIB_FLG, STORED_FINAL_BLOCK,
         len % 256, len \div 256, 255 - (len % 256), 255 - (len \div 256)>>
       \o bytes \o Adler32(bytes)

\* zlib::decompress: fails on anything that is not a zlib stream
zlib_decompress(bytes) ==
    LET n == Len(bytes)
        len == bytes[4] + 256 * bytes[5]
        data == SubSeq(bytes, 8, 7 + len)
    IN IF \/ n < 11
          \/ bytes[1] % 16 # 8
          \/ bytes[1] \div 16 > 7
          \/ (bytes[1] * 256 + bytes[2]) % 31 # 0
          \/ (bytes[2] \div 32) % 2 # 0
          \/ bytes[3] # STORED_FINAL_BLOCK
          \/ bytes[6] # 255 - bytes[4]
          \/ bytes[7] # 255 - bytes[5]
          \/ n # 11 + len
       THEN Failed("could not read data when decompressing data")
       ELSE IF SubSeq(bytes, 8 + len, n) # Adler32(data)
            THEN Failed("could not read data when decompressing data")
            ELSE [ok |-> TRUE, bytes |-> data]

----------------------------------------------------------------------------
(* Maps (std::collections::HashMap) as functions *)

\* a value computed once and used by what follows
With(value, Rest(_)) == Rest(value)

EmptyMap == [k \in {} |-> 0]

MapRemove(m, k) == [x \in DOMAIN m \ {k} |-> m[x]]

\* HashMap::insert: the value of an existing key is replaced
MapInsert(m, k, v) == [x \in DOMAIN m \cup {k} |-> IF x = k THEN v ELSE m[x]]

----------------------------------------------------------------------------
(* IndexEntryCache *)

\* IndexEntryCache::matches_loose: the coarse comparison of the metadata
\* recorded in the index with the metadata of the file on disk
matches_loose(index_cache, file_cache) ==
    /\ index_cache.size = file_cache.size
    /\ index_cache.mtime = file_cache.mtime
    /\ index_cache.device = file_cache.device
    /\ index_cache.inode = file_cache.inode

----------------------------------------------------------------------------
(* determine_statuses (commands/status/status.rs) *)

NoPath == <<>>

FileWithStatus(path, status, previous, stage_status) ==
    [path |-> path, status |-> status, previous |-> previous, stage_status |-> stage_status]

\* hash_if_not_computed: returns the new file_hash and hash_computed, and
\* whether the reader was read.  A failed read leaves both locals as they were
\* (the Err is turned into () by warn_unwrap_or_default at the call).
hash_if_not_computed(fh, file, hash_computed) ==
    IF hash_computed
    THEN [file_hash |-> fh, hash_computed |-> TRUE, read |-> FALSE]
    ELSE IF file.readable
         THEN [file_hash |-> HashCompute(blob_as_bytes(file.data)),
               hash_computed |-> TRUE, read |-> TRUE]
         ELSE [file_hash |-> fh, hash_computed |-> FALSE, read |-> TRUE]

NotHashed(fh) == [file_hash |-> fh, hash_computed |-> FALSE, read |-> FALSE]

\* lines 123-147: the stage status of a working tree file and the hashing done for it
StageOf(file, idx, fh) ==
    IF file.path \in DOMAIN idx
    THEN IF matches_loose(idx[file.path].cache, file.cache)
         THEN [stage |-> "Commit", h |-> NotHashed(fh)]
         ELSE LET h == hash_if_not_computed(fh, file, FALSE)
              IN [stage |-> IF idx[file.path].hash = h.file_hash THEN "Commit" ELSE "NotCommit",
                  h |-> h]
    ELSE [stage |-> "Untracked", h |-> NotHashed(fh)]

\* line 150: `index_hash` here is the outer local of line 110; the binding of
\* line 123 is out of scope
UnchangedByIndex(stage, commit_hash, outer_index_hash) ==
    stage = "Commit" /\ commit_hash = outer_index_hash

\* a status that takes every file of the commit as Unchanged, its content not
\* compared
StatusOfUncompared(file, cd, st, outer_index_hash) ==
    IF file.path \in DOMAIN cd
    THEN [status |-> "Unchanged", h |-> st.h]
    ELSE IF st.stage = "Untracked"
         THEN [status |-> "New", h |-> st.h]
         ELSE LET h == hash_if_not_computed(st.h.file_hash, file, st.h.hash_computed)
              IN [status |-> "Deferred", h |-> [h EXCEPT !.read = h.read \/ st.h.read]]

\* lines 149-178: the status against the commit.  status "Deferred" stands for
\* the insert into possibly_moved_files followed by `continue`.
StatusOf(file, cd, st, outer_index_hash) ==
    IF file.path \in DOMAIN cd
    THEN IF UnchangedByIndex(st.stage, cd[file.path], outer_index_hash)
         THEN [status |-> "Unchanged", h |-> st.h]
         ELSE LET h == hash_if_not_computed(st.h.file_hash, file, st.h.hash_computed)
              IN [status |-> IF cd[file.path] = h.file_hash THEN "Unchanged" ELSE "Modified",
                  h |-> [h EXCEPT !.read = h.read \/ st.h.read]]
    ELSE IF st.stage = "Untracked"
         THEN [status |-> "New", h |-> st.h]
         ELSE LET h == hash_if_not_computed(st.h.file_hash, file, st.h.hash_computed)
              IN [status |-> "Deferred", h |-> [h EXCEPT !.read = h.read \/ st.h.read]]

\* where the run stands once the given collections are what is left
PhaseOf(wtd, idx, cd, pm) ==
    IF wtd # <<>> THEN "wt"
    ELSE IF DOMAIN idx # {} THEN "index"
    ELSE IF DOMAIN cd # {} THEN "commit"
    ELSE IF DOMAIN pm # {} THEN "new"
    ELSE "done"

\* lines 111-186: one iteration of the loop over the working tree
StatusWorkingTreeFile ==
    /\ pc = "wt"
    /\ LET file == Head(working_tree_data)
           st == StageOf(file, index_data, file_hash)
           idx == MapRemove(index_data, file.path)
           res == StatusOf(file, commit_data, st, index_hash)
           cd == MapRemove(commit_data, file.path)
           pm == IF res.status = "Deferred"
                 THEN MapInsert(possibly_moved_files, res.h.file_hash,
                                [path |-> file.path, stage_status |-> st.stage])
                 ELSE possibly_moved_files
       IN /\ working_tree_data' = Tail(working_tree_data)
          /\ index_data' = idx
          /\ commit_data' = cd
          /\ file_hash' = res.h.file_hash
          /\ reads' = IF res.h.read THEN reads \cup {file.path} ELSE reads
          /\ possibly_moved_files' = pm
          /\ hashes_used' = IF res.status = "Deferred"
                            THEN MapInsert(hashes_used, file.path, res.h.file_hash)
                            ELSE hashes_used
          /\ file_statuses' = IF res.status = "Deferred"
                              THEN file_statuses
                              ELSE Append(file_statuses,
                                          FileWithStatus(file.path, res.status, NoPath, st.stage))
          /\ pc' = PhaseOf(Tail(working_tree_data), idx, cd, pm)
    /\ UNCHANGED <<index_hash, given>>
    /\ UNCHANGED notStatusVars

\* a deleted path reported without the lookup in possibly_moved_files
DeletedNeverMoved(pm, path, hash, stage_status) ==
    FileWithStatus(path, "Deleted", NoPath, stage_status)

\* lines 199-211 and 219-231: a deleted path is the previous path of a moved
\* file when a deferred file has its hash, and deleted otherwise
DeletedOrMoved(pm, path, hash, stage_status) ==
    IF hash \in DOMAIN pm
    THEN FileWithStatus(pm[hash].path, "Moved", path, stage_status)
    ELSE FileWithStatus(path, "Deleted", NoPath, stage_status)

\* lines 191-212: one iteration over the index entries left (HashMap order)
StatusDeletedFromIndex ==
    /\ pc = "index"
    /\ \E path \in DOMAIN index_data :
         LET hash == index_data[path].hash
             idx == MapRemove(index_data, path)
             cd == MapRemove(commit_data, path)
             pm == MapRemove(possibly_moved_files, hash)
         IN /\ index_data' = idx
            /\ commit_data' = cd
            /\ index_hash' = hash
            /\ possibly_moved_files' = pm
            /\ file_statuses' = Append(file_statuses,
                   DeletedOrMoved(possibly_moved_files, path, hash, "NotCommit"))
            /\ pc' = PhaseOf(<<>>, idx, cd, pm)
    /\ UNCHANGED <<working_tree_data, file_hash, reads, given, hashes_used>>
    /\ UNCHANGED notStatusVars

\* lines 216-232: one iteration over the commit entries left (HashMap order)
StatusDeletedFromCommit ==
    /\ pc = "commit"
    /\ \E path \in DOMAIN commit_data :
         LET hash == commit_data[path]
             cd == MapRemove(commit_data, path)
             pm == MapRemove(possibly_moved_files, hash)
         IN /\ commit_data' = cd
            /\ possibly_moved_files' = pm
            /\ file_statuses' = Append(file_statuses,
                   DeletedOrMoved(possibly_moved_files, path, hash, "Commit"))
            /\ pc' = PhaseOf(<<>>, index_data, cd, pm)
    /\ UNCHANGED <<working_tree_data, index_data, file_hash, index_hash, reads, given,
                   hashes_used>>
    /\ UNCHANGED notStatusVars

\* lines 235-241: one iteration over the deferred files left (HashMap order)
StatusNewFile ==
    /\ pc = "new"
    /\ \E hash \in DOMAIN possibly_moved_files :
         LET pm == MapRemove(possibly_moved_files, hash)
         IN /\ possibly_moved_files' = pm
            /\ file_statuses' = Append(file_statuses,
                   FileWithStatus(possibly_moved_files[hash].path, "New", NoPath,
                                  possibly_moved_files[hash].stage_status))
            /\ pc' = PhaseOf(<<>>, index_data, commit_data, pm)
    /\ UNCHANGED <<working_tree_data, index_data, commit_data, file_hash, index_hash, reads,
                   given, hashes_used>>
    /\ UNCHANGED notStatusVars

StatusStep ==
    \/ StatusWorkingTreeFile
    \/ StatusDeletedFromIndex
    \/ StatusDeletedFromCommit
    \/ StatusNewFile

----------------------------------------------------------------------------
(* determine_statuses on arbitrary inputs *)

PathA == <<97>>
PathB == <<98>>
PathC == <<99>>

\* the working tree files are listed in this order; the paths are interchangeable
\* in the inputs drawn below, so one listing order stands for all of them
StatusPathSeq == <<PathA, PathB, PathC>>
StatusPaths == {StatusPathSeq[i] : i \in 1..Len(StatusPathSeq)}

\* file contents: two of the same size, so that metadata can match while the
\* content differs
Contents == {<<120>>, <<121>>}
Mtimes == {1, 2}

\* how many entries the three inputs hold together
MaxEntries == 5

FileCache(data, mtime) == [size |-> Len(data), mtime |-> mtime, device |-> 1, inode |-> 1]

BlobHash(data) == HashCompute(blob_as_bytes(data))

Slots == StatusPaths \X {"commit", "index", "wt"}
Patterns == {S \in SUBSET Slots : Cardinality(S) <= MaxEntries}
PathsIn(S, layer) == {p \in StatusPaths : <<p, layer>> \in S}

FileData(path, data, readable, cache) ==
    [path |-> path, data |-> data, readable |-> readable, cache |-> cache]

StatusIdle ==
    /\ pc = "idle"
    /\ commit_data = EmptyMap
    /\ index_data = EmptyMap
    /\ working_tree_data = <<>>
    /\ file_statuses = <<>>
    /\ possibly_moved_files = EmptyMap
    /\ file_hash = HashDefault
    /\ index_hash = HashDefault
    /\ reads = {}
    /\ given = [commit |-> EmptyMap, index |-> EmptyMap, wt |-> <<>>]
    /\ hashes_used = EmptyMap

CodecIdle ==
    /\ codec_pc = "idle"
    /\ codec_in = <<>>
    /\ codec_bytes = <<>>
    /\ codec_out = <<>>

StoreIdle ==
    /\ store_objects = EmptyMap
    /\ store_written = EmptyMap
    /\ store_last = [op |-> "none"]
    /\ store_before = EmptyMap

IndexIdle ==
    /\ ix_pc = "idle"
    /\ ix_builder = <<>>
    /\ ix_index = <<>>
    /\ ix_bytes = <<>>
    /\ ix_decoded = <<>>

TreeIdle ==
    /\ tb_pc = "idle"
    /\ tb_files = {}
    /\ tb_builder = <<>>
    /\ tb_added = {}
    /\ tb_tree = <<>>

RepoIdle ==
    /\ repo = <<>>
    /\ repo_edits = 0
    /\ repo_last = <<>>

WritersIdle ==
    /\ wr_given = <<>>
    /\ wr_procs = <<>>
    /\ wr_dirs = {}
    /\ wr_files = <<>>

EntryIdle ==
    /\ ie_entry = <<>>
    /\ ie_calls = <<>>

\* the state at line 111, before the first iteration
StatusBegin(cd, idx, wtd) ==
    /\ pc = PhaseOf(wtd, idx, cd, EmptyMap)
    /\ commit_data = cd
    /\ index_data = idx
    /\ working_tree_data = wtd
    /\ file_statuses = <<>>
    /\ possibly_moved_files = EmptyMap
    /\ file_hash = HashDefault
    /\ index_hash = HashDefault
    /\ reads = {}
    /\ given = [commit |-> cd, index |-> idx, wt |-> wtd]
    /\ hashes_used = EmptyMap

InitStatus ==
    \E S \in Patterns :
      \E c \in [S -> Contents] :
        \E m \in [PathsIn(S, "wt") -> (Mtimes \X BOOLEAN)] :
          LET cd == [p \in PathsIn(S, "commit") |-> BlobHash(c[<<p, "commit">>])]
              idx == [p \in PathsIn(S, "index") |->
                        [hash |-> BlobHash(c[<<p, "index">>]),
                         cache |-> FileCache(c[<<p, "index">>], 1)]]
              wtd == [i \in 1..Len(StatusPathSeq) |->
                        LET p == StatusPathSeq[i]
                        IN IF p \in PathsIn(S, "wt")
                           THEN FileData(p, c[<<p, "wt">>], m[p][2],
                                         FileCache(c[<<p, "wt">>], m[p][1]))
                           ELSE FileData(NoPath, <<>>, TRUE, FileCache(<<>>, 1))]
          IN /\ StatusBegin(cd, idx, SelectSeq(wtd, LAMBDA f : f.path # NoPath))
             /\ CodecIdle
             /\ StoreIdle
             /\ EntryIdle
             /\ WritersIdle
             /\ IndexIdle
             /\ TreeIdle
             /\ RepoIdle

NextStatus == StatusStep

SpecStatus == InitStatus /\ [][NextStatus]_vars

----------------------------------------------------------------------------
(* Claims about determine_statuses *)

WtPaths(in) == {in.wt[i].path : i \in 1..Len(in.wt)}
WtFile(in, p) == in.wt[CHOOSE i \in 1..Len(in.wt) : in.wt[i].path = p]
InputPaths(in) == DOMAIN in.commit \cup DOMAIN in.index \cup WtPaths(in)

\* the records that classify path p: as their path or as the previous path of a move
RecordsOf(p) ==
    {i \in 1..Len(file_statuses) :
        \/ file_statuses[i].path = p
        \/ file_statuses[i].status = "Moved" /\ file_statuses[i].previous = p}

\* C1: when determine_statuses returns, every path of the commit map, the index
\* map or the working tree list is classified by exactly one record (as its
\* path or as the previous path of a Moved record).
C1_EveryPathOnce ==
    pc = "done" => \A p \in InputPaths(given) : Cardinality(RecordsOf(p)) = 1

\* C2: a working tree file whose path is in the index with loosely matching
\* cache metadata is never read by hash_if_not_computed.
C2_CacheMatchNeverHashed ==
    \A p \in WtPaths(given) :
        (p \in DOMAIN given.index
         /\ matches_loose(given.index[p].cache, WtFile(given, p).cache))
        => p \notin reads

\* path r is recorded in an input with hash h (a file by the hash of its content)
RecordedWith(in, r, h) ==
    \/ r \in DOMAIN in.commit /\ in.commit[r] = h
    \/ r \in DOMAIN in.index /\ in.index[r].hash = h
    \/ r \in WtPaths(in) /\ BlobHash(WtFile(in, r).data) = h

\* p was deleted and q is a new file with the content recorded for p, and no
\* other path has that hash
RenamedPair(in, p, q) ==
    /\ p \in DOMAIN in.commit /\ p \notin WtPaths(in)
    /\ q \in WtPaths(in) /\ q \notin DOMAIN in.commit
    /\ BlobHash(WtFile(in, q).data) = in.commit[p]
    /\ \A r \in InputPaths(in) \ {p, q} : ~RecordedWith(in, r, in.commit[p])

MovedOnly(p, q) ==
    /\ Cardinality({i \in 1..Len(file_statuses) :
           /\ file_statuses[i].status = "Moved"
           /\ file_statuses[i].previous = p
           /\ file_statuses[i].path = q}) = 1
    /\ \A i \in 1..Len(file_statuses) :
           /\ ~(file_statuses[i].status = "Deleted" /\ file_statuses[i].path = p)
           /\ ~(file_statuses[i].status = "New" /\ file_statuses[i].path = q)

TrackedRenamedPair(in, p, q) ==
    /\ p \in DOMAIN in.commit /\ p \notin WtPaths(in)
    /\ q \in WtPaths(in) /\ q \notin DOMAIN in.commit
    /\ q \in DOMAIN in.index
    /\ q \in DOMAIN hashes_used /\ hashes_used[q] = in.commit[p]
    /\ (p \in DOMAIN in.index => in.index[p].hash = in.commit[p])
    /\ \A r \in InputPaths(in) \ {p, q} :
          /\ r \in DOMAIN in.commit => in.commit[r] # in.commit[p]
          /\ (r \in DOMAIN in.index /\ r \notin WtPaths(in)) => in.index[r].hash # in.commit[p]
          /\ r \in DOMAIN hashes_used => hashes_used[r] # in.commit[p]

ReadFailed(in, p) == p \in WtPaths(in) /\ ~WtFile(in, p).readable /\ p \in reads

\* C14: a working tree file whose read failed during status is never
\* classified Unchanged, is never given stage Commit by a comparison of hashes
\* (its cache metadata not matching the index), and is never deferred under a
\* hash that is not its own (the hash of a file processed before, or the
\* default hash).
C14_FailedReadNeverClean ==
    \A p \in WtPaths(given) :
        ReadFailed(given, p) =>
            /\ p \notin DOMAIN hashes_used
            /\ \A i \in 1..Len(file_statuses) :
                  file_statuses[i].path = p =>
                      /\ file_statuses[i].status # "Unchanged"
                      /\ (/\ p \in DOMAIN given.index
                          /\ ~matches_loose(given.index[p].cache, WtFile(given, p).cache))
                         => file_statuses[i].stage_status # "Commit"

\* the hashes of the tracked new files: the files of the working tree that
\* are in the index and in no commit, by their content
TrackedNewHashes(in) ==
    {BlobHash(WtFile(in, q).data) :
        q \in {r \in WtPaths(in) : r \in DOMAIN in.index /\ r \notin DOMAIN in.commit}}

\* the hashes recorded for a path in the index and in the commit
HashesOf(in, p) ==
    {in.index[q].hash : q \in {p} \cap DOMAIN in.index}
    \cup {in.commit[q] : q \in {p} \cap DOMAIN in.commit}

\* p is recorded, absent from the working tree, and no tracked new file has
\* its hash
DeletedPath(in, p) ==
    /\ p \in DOMAIN in.index \cup DOMAIN in.commit
    /\ p \notin WtPaths(in)
    /\ HashesOf(in, p) \cap TrackedNewHashes(in) = {}

\* C18: a path that is absent from the working tree and whose hash matches no
\* tracked new file is reported Deleted exactly once: with stage NotCommit
\* when the path is still in the index, in the last commit or not, and with
\* stage Commit when it is in the last commit and no longer in the index.
C18_DeletedReportedOnce ==
    pc = "done" =>
        \A p \in InputPaths(given) :
            DeletedPath(given, p) =>
                /\ Cardinality(RecordsOf(p)) = 1
                /\ \A i \in RecordsOf(p) :
                      file_statuses[i] =
                          FileWithStatus(p, "Deleted", NoPath,
                                         IF p \in DOMAIN given.index
                                         THEN "NotCommit" ELSE "Commit")

\* C18 where every read of status succeeded
C18_DeletedReportedOnce_AllRead ==
    (pc = "done" /\ \A q \in WtPaths(given) : ~ReadFailed(given, q)) =>
        \A p \in InputPaths(given) :
            DeletedPath(given, p) =>
                /\ Cardinality(RecordsOf(p)) = 1
                /\ \A i \in RecordsOf(p) :
                      file_statuses[i] =
                          FileWithStatus(p, "Deleted", NoPath,
                                         IF p \in DOMAIN given.index
                                         THEN "NotCommit" ELSE "Commit")

\* the deleted paths recorded with hash h and no other: in the index or in
\* the commit, absent from the working tree
DeletedWith(in, h) ==
    {p \in (DOMAIN in.index \cup DOMAIN in.commit) \ WtPaths(in) : HashesOf(in, p) = {h}}

\* the tracked new paths whose content has hash h
TrackedNewWith(in, h) ==
    {q \in WtPaths(in) :
        /\ q \in DOMAIN in.index
        /\ q \notin DOMAIN in.commit
        /\ BlobHash(WtFile(in, q).data) = h}

\* the Moved records
MovedRecords == {i \in 1..Len(file_statuses) : file_statuses[i].status = "Moved"}

\* every tracked new path is the target of at most one Moved record and
\* every deleted path the previous path of at most one
MovedPairsOneToOne ==
    /\ \A q \in WtPaths(given) :
          Cardinality({i \in MovedRecords : file_statuses[i].path = q}) <= 1
    /\ \A p \in InputPaths(given) \ WtPaths(given) :
          Cardinality({i \in MovedRecords : file_statuses[i].previous = p}) <= 1

\* k >= 2 deleted paths and one tracked new path that share hash h get one
\* Moved record and k - 1 Deleted records
OneMoveAmong(h) ==
    (Cardinality(DeletedWith(given, h)) >= 2 /\ Cardinality(TrackedNewWith(given, h)) = 1)
    => /\ Cardinality({i \in MovedRecords :
                          /\ file_statuses[i].previous \in DeletedWith(given, h)
                          /\ file_statuses[i].path \in TrackedNewWith(given, h)}) = 1
       /\ Cardinality({i \in 1..Len(file_statuses) :
                          /\ file_statuses[i].status = "Deleted"
                          /\ file_statuses[i].path \in DeletedWith(given, h)})
            = Cardinality(DeletedWith(given, h)) - 1

\* C22: move detection pairs paths one to one by hash: every tracked new path
\* is the target of at most one Moved record, every deleted path the previous
\* path of at most one, and k >= 2 deleted paths sharing a hash with one
\* tracked new path get exactly one Moved record and k - 1 Deleted records.
C22_MovesPairOneToOne ==
    pc = "done" =>
        /\ MovedPairsOneToOne
        /\ \A c \in Contents : OneMoveAmong(BlobHash(c))

\* C22 where every read of status succeeded
C22_MovesPairOneToOne_AllRead ==
    (pc = "done" /\ \A q \in WtPaths(given) : ~ReadFailed(given, q)) =>
        /\ MovedPairsOneToOne
        /\ \A c \in Contents : OneMoveAmong(BlobHash(c))

\* the pairing alone, whether the reads succeeded or not
C22_PairsOneToOne ==
    pc = "done" => MovedPairsOneToOne

----------------------------------------------------------------------------
(* The object codecs on bounded objects *)

Blob(data) == [kind |-> "blob", data |-> data]
Tree(entries) == [kind |-> "tree", entries |-> entries]

\* sequences over S of length at most n
SeqsUpTo(S, n) == UNION {[1..k -> S] : k \in 0..n}

MaxTreeEntries == 2
MaxParents == 2

BlobDatas == {<<>>, <<120>>, <<0, 32>>, <<98, 108, 111, 98, 32, 49, 0, 10>>}

\* regular file and directory modes as read from the tests (decimal numbers)
TreeModes == {100644, 40000}
\* "f", "d/f", "a b"
TreePaths == {<<102>>, <<100, SLASH_BYTE, 102>>, <<97, SPACE_BYTE, 98>>}
ObjectHashes == {BlobHash(<<120>>), BlobHash(<<121>>)}

TreeEntries == {TreeEntry(m, p, h) : m \in TreeModes, p \in TreePaths, h \in ObjectHashes}

\* "A", "A B <a@b>"
Identifiers == {<<65>>, <<65, SPACE_BYTE, 66, SPACE_BYTE, 60, 97, 64, 98, 62>>}
\* whole seconds, as git records them
Timestamps == {Timestamp(0, 0), Timestamp(1234567, 0)}
Timezones == {UtcOffset(0, 0, 0), UtcOffset(0 - 6, 0, 0), UtcOffset(5, 30, 0)}
\* "", "m", "l1\nl2"
Messages == {<<>>, <<109>>, <<108, 49, NEWLINE_BYTE, 108, 50>>}

Authors == {CommitUser("Author", i, t, z) : i \in Identifiers, t \in Timestamps, z \in Timezones}
Committers == {CommitUser("Committer", i, t, UtcOffset(0, 0, 0)) :
                  i \in Identifiers, t \in Timestamps}

Commits ==
    {Commit(BlobHash(<<>>), ps, a, c, m) :
        ps \in SeqsUpTo(ObjectHashes, MaxParents), a \in Authors, c \in Committers,
        m \in Messages}

CodecObjects ==
    {Blob(d) : d \in BlobDatas}
    \cup {Tree(es) : es \in SeqsUpTo(TreeEntries, MaxTreeEntries)}
    \cup Commits

\* '0', '9', 'a', 'f', 'A', 'F', and 'g', which is no hexadecimal digit
HashTextChars == {48, 57, 97, 102, 65, 70, 103}

\* the lengths of the texts parsed as a hash
HashTextLens == {0, 1, 2, 38, 39, 40, 41, 42}

\* texts of one character repeated, and texts where two characters alternate
HashTexts ==
    {[kind |-> "hash_text", text |-> [i \in 1..n |-> IF i % 2 = 1 THEN c ELSE d]] :
        n \in HashTextLens, c \in HashTextChars, d \in HashTextChars}

\* the encoder of the kind of the object
EncodeObject(x) ==
    IF x.kind = "blob" THEN [ok |-> TRUE, bytes |-> blob_as_bytes(x.data)]
    ELSE IF x.kind = "tree" THEN [ok |-> TRUE, bytes |-> tree_as_bytes(x.entries)]
    ELSE commit_as_bytes(x.tree, x.parents, x.author, x.committer, x.message)

\* the decoder of the kind the bytes were encoded from
DecodeObject(kind, bytes) ==
    IF kind = "blob" THEN blob_from_bytes(bytes)
    ELSE IF kind = "tree" THEN tree_from_bytes(bytes)
    ELSE commit_from_bytes(bytes)

InitCodec ==
    /\ StatusIdle
    /\ StoreIdle
    /\ EntryIdle
    /\ WritersIdle
    /\ IndexIdle
    /\ TreeIdle
    /\ RepoIdle
    /\ codec_pc = "start"
    /\ codec_in \in CodecObjects \cup HashTexts
    /\ codec_bytes = <<>>
    /\ codec_out = <<>>

CodecEncode ==
    /\ codec_pc = "start"
    /\ codec_in.kind # "hash_text"
    /\ codec_bytes' = EncodeObject(codec_in)
    /\ codec_pc' = "encoded"
    /\ UNCHANGED <<codec_in, codec_out>>
    /\ UNCHANGED notCodecVars

\* how many bytes at most an encoding loses at its end
MaxCut == 12

\* what an encoding becomes when it is cut short or a newline is put after it:
\* the length its header declares is no longer the length of its payload
DamagedEncodings(bytes) ==
    {SubSeq(bytes, 1, Len(bytes) - n) : n \in 1..(IF Len(bytes) - 1 < MaxCut
                                                  THEN Len(bytes) - 1 ELSE MaxCut)}
    \cup {bytes \o <<NEWLINE_BYTE>>}

\* the encoding is cut short or lengthened before it is decoded
CodecDamage ==
    /\ codec_pc = "encoded"
    /\ codec_bytes.ok
    /\ \E bytes \in DamagedEncodings(codec_bytes.bytes) :
          codec_bytes' = [ok |-> TRUE, bytes |-> bytes]
    /\ codec_pc' = "damaged"
    /\ UNCHANGED <<codec_in, codec_out>>
    /\ UNCHANGED notCodecVars

CodecDecode ==
    /\ codec_pc \in {"encoded", "damaged"}
    /\ codec_bytes.ok
    /\ codec_out' = DecodeObject(codec_in.kind, codec_bytes.bytes)
    /\ codec_pc' = IF codec_pc = "encoded" THEN "decoded" ELSE "decoded_damaged"
    /\ UNCHANGED <<codec_in, codec_bytes>>
    /\ UNCHANGED notCodecVars

\* Hash::from_str of a text
HashParse ==
    /\ codec_pc = "start"
    /\ codec_in.kind = "hash_text"
    /\ codec_out' = HashFromStr(codec_in.text)
    /\ codec_pc' = "parsed"
    /\ UNCHANGED <<codec_in, codec_bytes>>
    /\ UNCHANGED notCodecVars

\* to_string of the Hash parsed
HashDisplay ==
    /\ codec_pc = "parsed"
    /\ codec_out.ok
    /\ codec_bytes' = HashToString(codec_out.hash)
    /\ codec_pc' = "displayed"
    /\ UNCHANGED <<codec_in, codec_out>>
    /\ UNCHANGED notCodecVars

NextCodec == CodecEncode \/ CodecDamage \/ CodecDecode \/ HashParse \/ HashDisplay

SpecCodec == InitCodec /\ [][NextCodec]_vars

----------------------------------------------------------------------------
(* Claims about the object codecs *)

RoundTrips ==
    /\ codec_bytes.ok
    /\ codec_pc = "decoded"
    /\ codec_out.ok
    /\ codec_out.object = codec_in

\* C6: for every object kind and every structurally valid object x, decoding
\* the bytes of the encoding of x succeeds and yields x.
C6_DecodeEncodeIsIdentity ==
    codec_pc \in {"encoded", "decoded"} =>
        /\ codec_bytes.ok
        /\ codec_pc = "decoded" => (codec_out.ok /\ codec_out.object = codec_in)

\* trees and commits do round trip
TreeAndCommitRoundTrip ==
    (codec_pc = "decoded" /\ codec_in.kind # "blob") => RoundTrips

\* str::to_lowercase of an ASCII text
ToLowercase(text) ==
    [i \in 1..Len(text) |-> IF text[i] >= 65 /\ text[i] <= 90 THEN text[i] + 32 ELSE text[i]]

\* forty hexadecimal characters
IsFortyHex(text) == Len(text) = 2 * HASH_BYTE_LEN /\ \A i \in 1..Len(text) : IsHexChar(text[i])

\* C13: parsing a hash fails for every text that is not exactly 40 hexadecimal
\* characters, the empty text and the shorter texts of an even number of
\* hexadecimal characters included, and succeeds for every text of 40
\* hexadecimal characters, and then to_string of the hash is the text in
\* lowercase.
C13_ParsesOnlyFortyHex ==
    /\ codec_pc = "parsed" => (codec_out.ok <=> IsFortyHex(codec_in.text))
    /\ codec_pc = "displayed" => codec_bytes = ToLowercase(codec_in.text)

\* what does hold: a text of 40 hexadecimal characters is parsed and comes
\* back in lowercase, and a text with another character, of an odd length or
\* of more than 40 characters is refused
FortyHexParsed ==
    /\ (codec_pc = "parsed" /\ IsFortyHex(codec_in.text)) => codec_out.ok
    /\ (codec_pc = "displayed" /\ IsFortyHex(codec_in.text))
           => codec_bytes = ToLowercase(codec_in.text)
    /\ (/\ codec_pc = "parsed"
        /\ \/ Len(codec_in.text) % 2 = 1
           \/ Len(codec_in.text) > 2 * HASH_BYTE_LEN
           \/ \E i \in 1..Len(codec_in.text) : ~IsHexChar(codec_in.text[i]))
           => ~codec_out.ok

\* C27: decoding a byte string that is not a complete valid encoding (its
\* payload cut short, or of another length than the header declares, or a
\* header, author or committer field missing) returns an error for every
\* object kind: it never panics and never returns an object.
C27_DamagedEncodingRefused ==
    codec_pc = "decoded_damaged" =>
        /\ ~codec_out.ok
        /\ codec_out.error # "panic"

\* what does hold: the damaged encodings of blobs and trees are refused
\* without a panic
C27_DamagedBlobOrTreeRefused ==
    (codec_pc = "decoded_damaged" /\ codec_in.kind \in {"blob", "tree"}) =>
        /\ ~codec_out.ok
        /\ codec_out.error # "panic"

\* a damaged commit made the decoder panic
C27_CommitPanics ==
    codec_pc = "decoded_damaged" /\ ~codec_out.ok /\ codec_out.error = "panic"

\* a commit was returned from a payload of another length than declared
C27_CommitReturned ==
    codec_pc = "decoded_damaged" /\ codec_in.kind = "commit" /\ codec_out.ok

----------------------------------------------------------------------------
(* The object store (fs/object.rs, commands/cat_file.rs, commands/add.rs) *)

\* Object::as_bytes: the encoder of the variant
object_as_bytes(object) == EncodeObject(object)

\* Object::from_bytes: the leading token up to the first space selects the
\* decoder, which reads the bytes from their start and checks the header again
object_from_bytes(bytes) ==
    LET kind == ReadUntil(bytes, 1, SPACE_BYTE)
        tag == IF kind.found THEN WithoutLast(kind.buf) ELSE kind.buf
    IN IF tag = BLOB_STRING THEN blob_from_bytes(bytes)
       ELSE IF tag = TREE_STRING THEN tree_from_bytes(bytes)
       ELSE IF tag = COMMIT_STRING THEN commit_from_bytes(bytes)
       ELSE Failed("unknown object type")

\* Object::from_bytes_new_blob: the blob of the content of a file
from_bytes_new_blob(data) == Blob(data)

\* get_object_hash_and_filename (lines 40-44)
get_object_hash_and_filename(hash_str) ==
    <<SubSeq(hash_str, 1, 2), SubSeq(hash_str, 3, Len(hash_str))>>

\* the file of a hash under the objects directory
ObjectPath(hash) == get_object_hash_and_filename(HashToString(hash))

\* a write that empties the file it finds
write_to_object_dir_truncating(objects, object_bytes, hash) ==
    MapInsert(objects, ObjectPath(hash),
              IF ObjectPath(hash) \in DOMAIN objects THEN <<>> ELSE object_bytes)

\* write_to_object_dir (lines 55-75): the objects directory after the call
write_to_object_dir(objects, object_bytes, hash) ==
    IF ObjectPath(hash) \in DOMAIN objects
    THEN objects
    ELSE MapInsert(objects, ObjectPath(hash), object_bytes)

\* write_object (lines 22-29)
write_object(objects, object) ==
    LET bytes == object_as_bytes(object)
        hash == HashCompute(bytes.bytes)
    IN IF ~bytes.ok
       THEN [ok |-> FALSE, hash |-> HashDefault, objects |-> objects]
       ELSE [ok |-> TRUE, hash |-> hash,
             objects |-> write_to_object_dir(objects, bytes.bytes, hash)]

\* add.rs, hash_from_reader (68-82) and line 125: the blob of a file is
\* encoded, hashed and written
add_write_blob(objects, file_bytes) ==
    LET bytes == object_as_bytes(from_bytes_new_blob(file_bytes)).bytes
        hash == HashCompute(bytes)
    IN [ok |-> TRUE, hash |-> hash, objects |-> write_to_object_dir(objects, bytes, hash)]

\* read_object (lines 86-95)
read_object(objects, hash) ==
    IF ObjectPath(hash) \notin DOMAIN objects
    THEN Failed("could not read file")
    ELSE object_from_bytes(objects[ObjectPath(hash)])

\* cat_file (lines 10-28), up to the object it would print
cat_file(objects, hash) ==
    LET path == get_object_hash_and_filename(hash)
        bytes == zlib_decompress(objects[path])
    IN IF ~HashFromStr(hash).ok THEN Failed("object hash was invalid")
       ELSE IF path \notin DOMAIN objects THEN Failed("hash did not refer to any object")
       ELSE IF ~bytes.ok THEN Failed("could not decompress data")
       ELSE object_from_bytes(bytes.bytes)


\* the objects given to the writers: blobs, trees and a commit
StoreFileDatas == {<<>>, <<120>>}
StoreObjects ==
    {Blob(d) : d \in StoreFileDatas}
    \cup {Tree(<<>>), Tree(<<TreeEntry(100644, <<102>>, BlobHash(<<120>>))>>)}
    \cup {Commit(BlobHash(<<>>), <<>>,
                 CommitUser("Author", <<65>>, Timestamp(0, 0), UtcOffset(0, 0, 0)),
                 CommitUser("Committer", <<67>>, Timestamp(0, 0), UtcOffset(0, 0, 0)),
                 <<109>>)}

\* the hashes the readers are asked for: those of the objects, and one of no object
StoreHashes == {HashCompute(object_as_bytes(x).bytes) : x \in StoreObjects} \cup {HashDefault}

\* the hash an earlier write of the object returned, if there was one
FirstWrite(object) == {h \in DOMAIN store_written : store_written[h] = object}

InitStore ==
    /\ StatusIdle
    /\ CodecIdle
    /\ StoreIdle
    /\ EntryIdle
    /\ WritersIdle
    /\ IndexIdle
    /\ TreeIdle
    /\ RepoIdle

\* commit.rs:49 and every other caller of write_object
StoreWriteObject ==
    /\ \E object \in StoreObjects :
         LET res == write_object(store_objects, object)
         IN /\ res.ok
            /\ store_objects' = res.objects
            /\ store_written' = MapInsert(store_written, res.hash, object)
            /\ store_last' = [op |-> "write_object", object |-> object, hash |-> res.hash,
                              first |-> FirstWrite(object)]
    /\ store_before' = store_objects
    /\ UNCHANGED notStoreVars

\* add.rs:116-127 for one file
StoreAddBlob ==
    /\ \E file_bytes \in StoreFileDatas :
         LET res == add_write_blob(store_objects, file_bytes)
             object == from_bytes_new_blob(file_bytes)
         IN /\ store_objects' = res.objects
            /\ store_written' = MapInsert(store_written, res.hash, object)
            /\ store_last' = [op |-> "add", object |-> object, hash |-> res.hash,
                              first |-> FirstWrite(object)]
    /\ store_before' = store_objects
    /\ UNCHANGED notStoreVars

StoreReadObject ==
    /\ \E hash \in StoreHashes :
         store_last' = [op |-> "read_object", hash |-> hash,
                        result |-> read_object(store_objects, hash)]
    /\ store_before' = store_objects
    /\ UNCHANGED <<store_objects, store_written>>
    /\ UNCHANGED notStoreVars

StoreCatFile ==
    /\ \E hash \in StoreHashes :
         store_last' = [op |-> "cat_file", hash |-> hash,
                        result |-> cat_file(store_objects, HashToString(hash))]
    /\ store_before' = store_objects
    /\ UNCHANGED <<store_objects, store_written>>
    /\ UNCHANGED notStoreVars

NextStore ==
    \/ StoreWriteObject
    \/ StoreAddBlob
    \/ StoreReadObject
    \/ StoreCatFile

SpecStore == InitStore /\ [][NextStore]_vars

----------------------------------------------------------------------------
(* Claims about the object store *)

IsWrite(last) == last.op \in {"write_object", "add"}
IsRead(last) == last.op \in {"read_object", "cat_file"}

\* C7: every file a writer produced is the zlib-compressed encoding of the
\* object, stored under objects/<2 hex>/<38 hex> of the hash of the encoding,
\* and every reader asked for the hash of a written object returns that object.
C7_WrittenObjectsReadBack ==
    /\ \A h \in DOMAIN store_written :
          /\ h = HashCompute(object_as_bytes(store_written[h]).bytes)
          /\ ObjectPath(h) \in DOMAIN store_objects
          /\ store_objects[ObjectPath(h)]
                = zlib_compress(object_as_bytes(store_written[h]).bytes)
    /\ (IsRead(store_last) /\ store_last.hash \in DOMAIN store_written) =>
          /\ store_last.result.ok
          /\ store_last.result.object = store_written[store_last.hash]

\* C8: a write of an object that was written before returns the hash the
\* first write returned and leaves the files and their bytes as they were;
\* there is one file per hash written and no other file.
C8_RewriteChangesNothing ==
    /\ (IsWrite(store_last) /\ store_last.first # {}) =>
          /\ store_last.first = {store_last.hash}
          /\ store_objects = store_before
    /\ DOMAIN store_objects = {ObjectPath(h) : h \in DOMAIN store_written}
    /\ Cardinality(DOMAIN store_objects) = Cardinality(DOMAIN store_written)
    /\ \A h \in DOMAIN store_written :
          store_objects[ObjectPath(h)] = object_as_bytes(store_written[h]).bytes

C8_Witness ==
    /\ IsWrite(store_last)
    /\ store_last.first = {store_last.hash}
    /\ Cardinality(DOMAIN store_objects) >= 2
    /\ store_objects = store_before


----------------------------------------------------------------------------
(* Two processes in write_to_object_dir with one object (fs/object.rs) *)

\* the processes
Writers == {1, 2}

\* the objects either process may be given
WriterObjects == {Blob(<<>>), Blob(<<120>>)}

\* a write that appends to the file whatever the offset of the writer is
WriteAppending(content, offset, chunk) == content \o chunk

\* one write(2) of fs::write (line 71) at the offset of the file description:
\* the bytes between the end of the file and the offset read as zero
WriteAt(content, offset, chunk) ==
    [i \in 1..(IF Len(content) > offset + Len(chunk)
                THEN Len(content) ELSE offset + Len(chunk)) |->
        IF i > offset /\ i <= offset + Len(chunk) THEN chunk[i - offset]
        ELSE IF i <= Len(content) THEN content[i]
        ELSE 0]

\* the file of the object both processes were given
WriterPath == ObjectPath(wr_given.hash)

\* a process entering write_to_object_dir
WriterEntering == [pc |-> "exists", offset |-> 0, truncated |-> 0]

\* both processes are called with the bytes and the hash of one object; the
\* directory of the object may exist, and so may the file, left by a call
\* that returned
InitWriters ==
    /\ StatusIdle
    /\ CodecIdle
    /\ StoreIdle
    /\ EntryIdle
    /\ IndexIdle
    /\ TreeIdle
    /\ RepoIdle
    /\ \E object \in WriterObjects, dir_exists \in BOOLEAN, file_exists \in BOOLEAN :
         LET bytes == object_as_bytes(object).bytes
             hash == HashCompute(bytes)
         IN /\ file_exists => dir_exists
            /\ wr_given = [bytes |-> bytes, hash |-> hash]
            /\ wr_procs = [p \in Writers |-> WriterEntering]
            /\ wr_dirs = IF dir_exists THEN {ObjectPath(hash)[1]} ELSE {}
            /\ wr_files = IF file_exists
                          THEN MapInsert(EmptyMap, ObjectPath(hash), bytes)
                          ELSE EmptyMap

\* line 63: fs::exists, and the early return
WriterExists(p) ==
    /\ wr_procs[p].pc = "exists"
    /\ wr_procs' = [wr_procs EXCEPT ![p].pc =
                      IF WriterPath \in DOMAIN wr_files THEN "done" ELSE "create_dir_all"]
    /\ UNCHANGED <<wr_given, wr_dirs, wr_files, notWriterVars>>

\* line 69: fs::create_dir_all, which succeeds on a directory that exists
WriterCreateDirAll(p) ==
    /\ wr_procs[p].pc = "create_dir_all"
    /\ wr_dirs' = wr_dirs \cup {WriterPath[1]}
    /\ wr_procs' = [wr_procs EXCEPT ![p].pc = "open"]
    /\ UNCHANGED <<wr_given, wr_files, notWriterVars>>

\* line 71, fs::write: File::create opens the file, creating or truncating it
WriterOpen(p) ==
    /\ wr_procs[p].pc = "open"
    /\ WriterPath[1] \in wr_dirs
    /\ wr_files' = MapInsert(wr_files, WriterPath, <<>>)
    /\ wr_procs' = [wr_procs EXCEPT ![p] =
                      [pc |-> "write_all", offset |-> 0,
                       truncated |-> IF WriterPath \in DOMAIN wr_files
                                     THEN Len(wr_files[WriterPath]) ELSE 0]]
    /\ UNCHANGED <<wr_given, wr_dirs, notWriterVars>>

\* line 71, fs::write: write_all writes the rest of the bytes in one or more
\* writes, each of at least one byte
WriterWrite(p) ==
    /\ wr_procs[p].pc = "write_all"
    /\ \E n \in 1..(Len(wr_given.bytes) - wr_procs[p].offset) :
         LET offset == wr_procs[p].offset
             chunk == SubSeq(wr_given.bytes, offset + 1, offset + n)
         IN /\ wr_files' = MapInsert(wr_files, WriterPath,
                                     WriteAt(wr_files[WriterPath], offset, chunk))
            /\ wr_procs' = [wr_procs EXCEPT
                              ![p].offset = offset + n,
                              ![p].pc = IF offset + n = Len(wr_given.bytes)
                                        THEN "done" ELSE "write_all"]
    /\ UNCHANGED <<wr_given, wr_dirs, notWriterVars>>

NextWriters ==
    \E p \in Writers :
        \/ WriterExists(p)
        \/ WriterCreateDirAll(p)
        \/ WriterOpen(p)
        \/ WriterWrite(p)

SpecWriters == InitWriters /\ [][NextWriters]_vars

----------------------------------------------------------------------------
(* Claims about concurrent writers *)

\* both processes have returned from write_to_object_dir
WritersDone == \A p \in Writers : wr_procs[p].pc = "done"

\* C19: when two processes write the same object concurrently, in every
\* interleaving of their exists checks, directory creations and file writes
\* the object file holds exactly the bytes of the object once both have
\* returned
C19_ConcurrentWritersLeaveObject ==
    WritersDone =>
        /\ WriterPath \in DOMAIN wr_files
        /\ wr_files[WriterPath] = wr_given.bytes

\* both processes passed the exists check and wrote the whole object, and one
\* of them truncated the file the other had written a part of
C19_Witness ==
    /\ WritersDone
    /\ \A p \in Writers : wr_procs[p].offset = Len(wr_given.bytes)
    /\ \E p \in Writers :
         /\ wr_procs[p].truncated > 0
         /\ wr_procs[p].truncated < Len(wr_given.bytes)

----------------------------------------------------------------------------
(* The index (index/index.rs, index/index_entry.rs, index/builder.rs) *)

\* u32::from_be_bytes of b"DIRC"
INDEX_HEADER_BINARY == 1145655875
INDEX_VERSION_NUMBER == 2
MAX_PATH_LEN == 4095
PATH_LEN_FLAG_POSITION == 4095
\* the bytes of an entry before its path
ENTRY_FIXED_LEN == 62

\* byteorder write_u32::<BigEndian> / write_u16::<BigEndian>
U32Bytes(n) == <<n \div 16777216, (n \div 65536) % 256, (n \div 256) % 256, n % 256>>
U16Bytes(n) == <<n \div 256, n % 256>>

\* byteorder read_u32::<BigEndian> / read_u16::<BigEndian> at a position
ReadU32(bytes, pos) ==
    IF pos + 3 > Len(bytes) THEN [ok |-> FALSE, value |-> 0]
    ELSE [ok |-> TRUE,
          value |-> ((bytes[pos] * 256 + bytes[pos + 1]) * 256 + bytes[pos + 2]) * 256
                    + bytes[pos + 3]]
ReadU16(bytes, pos) ==
    IF pos + 1 > Len(bytes) THEN [ok |-> FALSE, value |-> 0]
    ELSE [ok |-> TRUE, value |-> bytes[pos] * 256 + bytes[pos + 1]]

\* usize::next_multiple_of(8)
NextMultipleOf8(n) == ((n + 7) \div 8) * 8

\* the ten u32 fields of an IndexEntry, in the order they are written
EntryU32Fields ==
    <<"creation_time_sec", "creation_time_nsec", "modification_time_sec",
      "modification_time_nsec", "device", "inode", "mode", "uid", "gid", "file_size">>

\* flags that leave the path length out
default_flags_without_len(path_len) == 0

\* IndexEntry::default_flags (lines 110-112)
default_flags(path_len) == IF path_len < MAX_PATH_LEN THEN path_len ELSE MAX_PATH_LEN

\* IndexEntry::flag_path_len (lines 138-140)
flag_path_len(entry) == entry.flags % (PATH_LEN_FLAG_POSITION + 1)

\* IndexEntry::len (lines 48-52)
entry_len(entry) == NextMultipleOf8(ENTRY_FIXED_LEN + Len(entry.path) + 1)

\* IndexEntry::try_from_file (lines 66-96) for a file whose metadata is `meta`;
\* the path given is not under the repository folder, so it is kept as it is
try_from_file(file_path, meta, object_hash) ==
    [creation_time_sec |-> meta.ctime, creation_time_nsec |-> meta.ctime_nsec,
     modification_time_sec |-> meta.mtime, modification_time_nsec |-> meta.mtime_nsec,
     device |-> meta.device, inode |-> meta.inode, mode |-> meta.mode,
     uid |-> meta.uid, gid |-> meta.gid, file_size |-> meta.size,
     object_hash |-> object_hash,
     flags |-> default_flags(Len(file_path)),
     path |-> file_path]

\* IndexEntry::as_bytes (lines 154-212)
index_entry_as_bytes(entry) ==
    LET inner == Concat([i \in 1..Len(EntryU32Fields) |-> U32Bytes(entry[EntryU32Fields[i]])])
                 \o entry.object_hash \o U16Bytes(entry.flags) \o entry.path \o <<NULL_BYTE>>
        padding == NextMultipleOf8(Len(inner)) - Len(inner)
    IN inner \o [i \in 1..padding |-> NULL_BYTE]

\* IndexEntry::from_bytes (lines 221-300) on the bytes from `pos` on
index_entry_from_bytes(bytes, pos) ==
    With([i \in 1..Len(EntryU32Fields) |-> ReadU32(bytes, pos + 4 * (i - 1))], LAMBDA u32s :
    With(pos + 4 * Len(EntryU32Fields), LAMBDA hash_pos :
    With(ReadU16(bytes, hash_pos + HASH_BYTE_LEN), LAMBDA flags :
    With(ReadUntil(bytes, hash_pos + HASH_BYTE_LEN + 2, NULL_BYTE), LAMBDA path :
    With([f \in {EntryU32Fields[i] : i \in 1..Len(EntryU32Fields)}
                \cup {"object_hash", "flags", "path"} |->
            IF f = "object_hash" THEN SubSeq(bytes, hash_pos, hash_pos + HASH_BYTE_LEN - 1)
            ELSE IF f = "flags" THEN flags.value
            ELSE IF f = "path" THEN WithoutLast(path.buf)
            ELSE u32s[CHOOSE i \in 1..Len(EntryU32Fields) : EntryU32Fields[i] = f].value],
         LAMBDA entry :
    IF \E i \in 1..Len(EntryU32Fields) : ~u32s[i].ok
    THEN Failed("could not read a field when decoding index entry")
    ELSE IF hash_pos + HASH_BYTE_LEN - 1 > Len(bytes)
         THEN Failed("could not read object hash when decoding index entry")
    ELSE IF ~flags.ok THEN Failed("could not read flags when decoding index entry")
    ELSE IF ~path.found THEN Failed("expected null byte after index entry path")
    ELSE IF /\ flag_path_len(entry) # PATH_LEN_FLAG_POSITION
            /\ flag_path_len(entry) # Len(entry.path)
         THEN Failed("index entry path length did not match actual path length")
    ELSE [ok |-> TRUE, entry |-> entry])))))

\* an Index: the header fields and the entries (extensions are never written)
Index(version_number, entries_number, entries) ==
    [version_number |-> version_number, entries_number |-> entries_number,
     entries |-> entries]

\* Path::components of a relative path
PathComponents(path) == SelectSeq(SplitOn(path, SLASH_BYTE), LAMBDA c : c # <<>>)

RECURSIVE BytesLess(_, _)
\* the order of two byte strings
BytesLess(a, b) ==
    IF b = <<>> THEN FALSE
    ELSE IF a = <<>> THEN TRUE
    ELSE IF Head(a) # Head(b) THEN Head(a) < Head(b)
    ELSE BytesLess(Tail(a), Tail(b))

RECURSIVE ComponentsLess(_, _)
\* the order of two sequences of components
ComponentsLess(a, b) ==
    IF b = <<>> THEN FALSE
    ELSE IF a = <<>> THEN TRUE
    ELSE IF Head(a) # Head(b) THEN BytesLess(Head(a), Head(b))
    ELSE ComponentsLess(Tail(a), Tail(b))

\* Path::cmp(p, q) = Ordering::Less: component by component
PathLess(p, q) == ComponentsLess(PathComponents(p), PathComponents(q))

RECURSIVE SortedInsert(_, _)
\* the entry put after the entries that are not greater than it
SortedInsert(sorted, e) ==
    IF sorted = <<>> THEN <<e>>
    ELSE IF PathLess(e.path, Head(sorted).path) THEN <<e>> \o sorted
    ELSE <<Head(sorted)>> \o SortedInsert(Tail(sorted), e)

RECURSIVE SortByPath(_)
\* Vec::sort_by(Path::cmp): a stable sort
SortByPath(entries) ==
    IF entries = <<>> THEN <<>>
    ELSE SortedInsert(SortByPath(WithoutLast(entries)), entries[Len(entries)])

\* IndexBuilder::new (lines 14-18)
IndexBuilderNew == Index(INDEX_VERSION_NUMBER, 0, <<>>)

\* a build that sorts the entries and leaves entries_number as it finds it
build_keeping_count(index) ==
    Index(index.version_number, index.entries_number, SortByPath(index.entries))

\* IndexBuilder::build (lines 20-26)
build(index) == Index(index.version_number, Len(index.entries), SortByPath(index.entries))

\* IndexBuilder::add_index_entry (lines 33-35)
add_index_entry(index, entry) == [index EXCEPT !.entries = Append(@, entry)]

\* Vec::swap_remove
SwapRemove(seq, position) ==
    LET last == seq[Len(seq)]
    IN [i \in 1..(Len(seq) - 1) |-> IF i = position THEN last ELSE seq[i]]

\* IndexBuilder::remove_index_entry_by_path (lines 36-39)
remove_index_entry_by_path(index, path) ==
    LET at == {i \in 1..Len(index.entries) : index.entries[i].path = path}
    IN IF at = {} THEN index
       ELSE [index EXCEPT !.entries = SwapRemove(@, CHOOSE i \in at : \A j \in at : i <= j)]

\* Index::as_bytes (lines 31-68)
index_as_bytes(index) ==
    LET body == U32Bytes(INDEX_HEADER_BINARY) \o U32Bytes(index.version_number)
                \o U32Bytes(index.entries_number)
                \o Concat([i \in 1..Len(index.entries) |->
                             index_entry_as_bytes(index.entries[i])])
    IN body \o HashCompute(body)

RECURSIVE index_read_entries(_, _, _, _)
\* the loop of lines 106-114: `left` entries are still to be read from pos
index_read_entries(bytes, pos, left, builder) ==
    IF left = 0 THEN [ok |-> TRUE, builder |-> builder, pos |-> pos]
    ELSE With(index_entry_from_bytes(bytes, pos), LAMBDA entry :
         IF ~entry.ok THEN entry
         ELSE index_read_entries(bytes, pos + entry_len(entry.entry), left - 1,
                                 add_index_entry(builder, entry.entry)))

\* the check of lines 128-135 as it is commented out there: a checksum that
\* differs is an error
index_from_bytes_checked(bytes) ==
    With(ReadU32(bytes, 1), LAMBDA dirc :
    With(ReadU32(bytes, 5), LAMBDA version_number :
    With(ReadU32(bytes, 9), LAMBDA entries_number :
    IF ~dirc.ok \/ dirc.value # INDEX_HEADER_BINARY
    THEN Failed("index file does not contain a valid header")
    ELSE IF ~version_number.ok \/ version_number.value # INDEX_VERSION_NUMBER
         THEN Failed("index file version is not supported")
    ELSE IF ~entries_number.ok THEN Failed("could not read entries_number")
    ELSE With(index_read_entries(bytes, 13, entries_number.value, IndexBuilderNew),
              LAMBDA read :
         IF ~read.ok THEN Failed("failed to build an index entry when decoding index")
         ELSE IF read.pos + HASH_BYTE_LEN - 1 > Len(bytes)
              THEN Failed("could not read checksum when decoding index")
         ELSE IF HashCompute(SubSeq(bytes, 1, read.pos - 1))
                     # SubSeq(bytes, read.pos, read.pos + HASH_BYTE_LEN - 1)
              THEN Failed("index checksum does not correspond with internal data")
         ELSE [ok |-> TRUE, index |-> build(read.builder), checksum_matches |-> TRUE]))))

\* Index::from_bytes (lines 77-140); a checksum that differs is reported on
\* stderr and the index is returned
index_from_bytes(bytes) ==
    With(ReadU32(bytes, 1), LAMBDA dirc :
    With(ReadU32(bytes, 5), LAMBDA version_number :
    With(ReadU32(bytes, 9), LAMBDA entries_number :
    IF ~dirc.ok THEN Failed("could not read DIRC when decoding index")
    ELSE IF dirc.value # INDEX_HEADER_BINARY
         THEN Failed("index file does not contain a valid header")
    ELSE IF ~version_number.ok THEN Failed("could not read version_number")
    ELSE IF version_number.value # INDEX_VERSION_NUMBER
         THEN Failed("index file version is not supported")
    ELSE IF ~entries_number.ok THEN Failed("could not read entries_number")
    ELSE With(index_read_entries(bytes, 13, entries_number.value, IndexBuilderNew),
              LAMBDA read :
         IF ~read.ok THEN Failed("failed to build an index entry when decoding index")
         ELSE With(build(read.builder), LAMBDA index :
              With(index_as_bytes(index), LAMBDA index_bytes :
              With(SubSeq(index_bytes, Len(index_bytes) - 19, Len(index_bytes)),
                   LAMBDA produced_hash :
              IF read.pos + HASH_BYTE_LEN - 1 > Len(bytes)
              THEN Failed("could not read checksum when decoding index")
              ELSE [ok |-> TRUE, index |-> index,
                    checksum_matches |->
                        produced_hash
                            = SubSeq(bytes, read.pos, read.pos + HASH_BYTE_LEN - 1)])))))))


\* how many entries an index of the model holds
MaxIndexEntries == 3

\* "a", "a/b", "a-b", "b": Path::cmp puts "a/b" before "a-b", the bytes do not
IndexPaths == {<<97>>, <<97, SLASH_BYTE, 98>>, <<97, 45, 98>>, <<98>>}

FileMetadata(size) ==
    [ctime |-> 1700000000, ctime_nsec |-> 999999999, mtime |-> 1700000001, mtime_nsec |-> 5,
     device |-> 2049, inode |-> 131074, mode |-> 33188, uid |-> 1000, gid |-> 1000,
     size |-> size]

IndexFileSizes == {0, 70000}

\* the entries add makes for the files staged: every path as a large file, and
\* the first also as an empty one
IndexEntries ==
    {try_from_file(p, FileMetadata(n), BlobHash(<<120>>)) :
        p \in IndexPaths, n \in IndexFileSizes \ {0}}
    \cup {try_from_file(<<97>>, FileMetadata(0), BlobHash(<<120>>))}

\* the bytes of an index file that get overwritten: the first and the last of
\* the magic, the last of the version, the first and the last of the checksum
DamagedPositions(bytes) == {1, 4, 8, Len(bytes) - HASH_BYTE_LEN + 1, Len(bytes)}

\* what they are overwritten with
DamagedBytes == {1, 3}

InitIndex ==
    /\ StatusIdle
    /\ CodecIdle
    /\ StoreIdle
    /\ EntryIdle
    /\ WritersIdle
    /\ TreeIdle
    /\ RepoIdle
    /\ ix_pc = "building"
    /\ ix_builder = IndexBuilderNew
    /\ ix_index = <<>>
    /\ ix_bytes = <<>>
    /\ ix_decoded = <<>>

IndexAddEntry ==
    /\ ix_pc = "building"
    /\ Len(ix_builder.entries) < MaxIndexEntries
    /\ \E entry \in IndexEntries : ix_builder' = add_index_entry(ix_builder, entry)
    /\ UNCHANGED <<ix_pc, ix_index, ix_bytes, ix_decoded>>
    /\ UNCHANGED notIndexVars

IndexRemoveEntry ==
    /\ ix_pc = "building"
    /\ \E path \in IndexPaths : ix_builder' = remove_index_entry_by_path(ix_builder, path)
    /\ UNCHANGED <<ix_pc, ix_index, ix_bytes, ix_decoded>>
    /\ UNCHANGED notIndexVars

IndexBuild ==
    /\ ix_pc = "building"
    /\ ix_index' = build(ix_builder)
    /\ ix_pc' = "built"
    /\ UNCHANGED <<ix_builder, ix_bytes, ix_decoded>>
    /\ UNCHANGED notIndexVars

\* fs::index::write_index_file
IndexEncode ==
    /\ ix_pc = "built"
    /\ ix_bytes' = index_as_bytes(ix_index)
    /\ ix_pc' = "encoded"
    /\ UNCHANGED <<ix_builder, ix_index, ix_decoded>>
    /\ UNCHANGED notIndexVars

\* one byte of the index file is overwritten: a byte of the magic, of the
\* version or of the checksum
IndexDamage ==
    /\ ix_pc = "encoded"
    /\ \E position \in DamagedPositions(ix_bytes), byte \in DamagedBytes :
          /\ ix_bytes[position] # byte
          /\ ix_bytes' = [ix_bytes EXCEPT ![position] = byte]
    /\ ix_pc' = "damaged"
    /\ UNCHANGED <<ix_builder, ix_index, ix_decoded>>
    /\ UNCHANGED notIndexVars

\* fs::index::read_index_file
IndexDecode ==
    /\ ix_pc \in {"encoded", "damaged"}
    /\ ix_decoded' = index_from_bytes(ix_bytes)
    /\ ix_pc' = IF ix_pc = "encoded" THEN "decoded" ELSE "decoded_damaged"
    /\ UNCHANGED <<ix_builder, ix_index, ix_bytes>>
    /\ UNCHANGED notIndexVars

\* IndexBuilder::from(previous_index) (lines 47-53), as add does with the index read
IndexBuilderFrom ==
    /\ ix_pc \in {"decoded", "decoded_damaged"}
    /\ ix_decoded.ok
    /\ ix_builder' = ix_decoded.index
    /\ ix_pc' = "building"
    /\ ix_index' = <<>>
    /\ ix_bytes' = <<>>
    /\ ix_decoded' = <<>>
    /\ UNCHANGED notIndexVars

NextIndex ==
    \/ IndexAddEntry
    \/ IndexRemoveEntry
    \/ IndexBuild
    \/ IndexEncode
    \/ IndexDamage
    \/ IndexDecode
    \/ IndexBuilderFrom

SpecIndex == InitIndex /\ [][NextIndex]_vars

----------------------------------------------------------------------------
(* Claims about the index *)

Checksum(bytes) == SubSeq(bytes, Len(bytes) - HASH_BYTE_LEN + 1, Len(bytes))

\* C9: the bytes of an Index returned by IndexBuilder::build decode to an Index
\* with the same entries in the same order, every field equal, and the decoded
\* Index encodes to the same trailing 20-byte checksum.
C9_IndexRoundTrip ==
    ix_pc = "decoded" =>
        /\ ix_decoded.ok
        /\ ix_decoded.index.entries = ix_index.entries
        /\ Len(ix_decoded.index.entries) = Len(ix_index.entries)
        /\ \A i \in 1..Len(ix_index.entries) :
              \A f \in DOMAIN ix_index.entries[i] :
                  ix_decoded.index.entries[i][f] = ix_index.entries[i][f]
        /\ Checksum(index_as_bytes(ix_decoded.index)) = Checksum(ix_bytes)

\* an index of several entries, sorted by build into another order than it was
\* filled in, read back
C9_Witness ==
    /\ ix_pc = "decoded"
    /\ ix_decoded.ok
    /\ Len(ix_index.entries) = MaxIndexEntries
    /\ ix_index.entries # ix_builder.entries
    /\ ix_decoded.index.entries = ix_index.entries
    /\ \E i \in 1..Len(ix_index.entries) : ix_index.entries[i].file_size > 65535

\* C12: decoding an index file fails when its magic is not "DIRC" or its
\* version is not 2; when the header and the entries are as written and only
\* the trailing checksum differs from the one recomputed, decoding returns the
\* index, and the difference is only reported.
C12_DamagedIndexDecoding ==
    ix_pc = "decoded_damaged" =>
        /\ SubSeq(ix_bytes, 1, 4) # U32Bytes(INDEX_HEADER_BINARY) => ~ix_decoded.ok
        /\ SubSeq(ix_bytes, 5, 8) # U32Bytes(INDEX_VERSION_NUMBER) => ~ix_decoded.ok
        /\ (/\ SubSeq(ix_bytes, 1, Len(ix_bytes) - HASH_BYTE_LEN)
                  = SubSeq(index_as_bytes(ix_index), 1, Len(ix_bytes) - HASH_BYTE_LEN)
            /\ Checksum(ix_bytes) # Checksum(index_as_bytes(ix_index)))
           => /\ ix_decoded.ok
              /\ ix_decoded.index = ix_index
              /\ ~ix_decoded.checksum_matches

\* an index of several entries whose checksum was damaged was read back whole
C12_Witness ==
    /\ ix_pc = "decoded_damaged"
    /\ Checksum(ix_bytes) # Checksum(index_as_bytes(ix_index))
    /\ ix_decoded.ok
    /\ ~ix_decoded.checksum_matches
    /\ Len(ix_index.entries) >= 2
    /\ ix_decoded.index = ix_index

\* a damaged magic and a damaged version were both refused
C12_HeaderRefused ==
    ix_pc = "decoded_damaged" /\ ~ix_decoded.ok /\ SubSeq(ix_bytes, 5, 8) # U32Bytes(INDEX_VERSION_NUMBER)


\* entries_number is the number of entries the Index holds
CountsItsEntries(index) == index.entries_number = Len(index.entries)

\* no entry comes before an entry Path::cmp puts before it
SortedByPath(entries) ==
    \A i, j \in 1..Len(entries) : i < j => ~PathLess(entries[j].path, entries[i].path)

\* C24: every Index that is encoded or written (built after any sequence of
\* add_index_entry and remove_index_entry_by_path calls, or obtained by
\* decoding) has entries_number equal to the number of entries it holds, the
\* count written is that number, and the Index returned by build has its
\* entries sorted by path.
C24_IndexCountsAndSorts ==
    /\ ix_pc \in {"built", "encoded", "damaged", "decoded", "decoded_damaged"} =>
          /\ CountsItsEntries(ix_index)
          /\ SortedByPath(ix_index.entries)
    /\ ix_pc = "encoded" => ReadU32(ix_bytes, 9).value = Len(ix_index.entries)
    /\ (ix_pc \in {"decoded", "decoded_damaged"} /\ ix_decoded.ok) =>
          CountsItsEntries(ix_decoded.index)

\* an index read back, one of its entries removed from the builder made of
\* it, whose entries_number is still the old one, built again in another
\* order than the builder held the entries in, and encoded
C24_Witness ==
    /\ ix_pc = "encoded"
    /\ ix_builder.entries_number > Len(ix_builder.entries)
    /\ Len(ix_index.entries) >= 2
    /\ ix_index.entries # ix_builder.entries
    /\ CountsItsEntries(ix_index)
    /\ ReadU32(ix_bytes, 9).value = Len(ix_index.entries)

----------------------------------------------------------------------------
(* The flags of an index entry (index/index_entry.rs, index/file_stage.rs) *)

\* flags is a u16
FLAG_BITS == 16

\* 0b1101_1111_1111_1111 and 0b0011_1111_1111_1111
ASSUME_VALID_FLAG_POSITION == 57343
STAGE_POSITION == 16383

\* FileStage as u16: Normal, Ours, Theirs, Base
FileStages == {0, 1, 2, 3}

RECURSIVE BitAnd(_, _, _)
\* a & b on integers of `bits` bits
BitAnd(a, b, bits) ==
    IF bits = 0 THEN 0
    ELSE (a % 2) * (b % 2) + 2 * BitAnd(a \div 2, b \div 2, bits - 1)

RECURSIVE BitOr(_, _, _)
\* a | b on integers of `bits` bits
BitOr(a, b, bits) ==
    IF bits = 0 THEN 0
    ELSE (IF a % 2 = 1 \/ b % 2 = 1 THEN 1 ELSE 0) + 2 * BitOr(a \div 2, b \div 2, bits - 1)

\* IndexEntry::set_assumed_valid (lines 118-123)
set_assumed_valid(entry, value) ==
    [entry EXCEPT !.flags =
        IF value THEN BitOr(@, ASSUME_VALID_FLAG_POSITION, FLAG_BITS)
        ELSE BitAnd(@, ASSUME_VALID_FLAG_POSITION, FLAG_BITS)]

\* IndexEntry::set_stage (lines 131-135)
set_stage(entry, stage) ==
    [entry EXCEPT !.flags = BitOr(BitAnd(@, STAGE_POSITION, FLAG_BITS), stage, FLAG_BITS)]

\* how many calls are made on an entry
MaxEntryCalls == 2

\* an entry made by try_from_file
InitEntry ==
    /\ StatusIdle
    /\ CodecIdle
    /\ StoreIdle
    /\ WritersIdle
    /\ IndexIdle
    /\ TreeIdle
    /\ RepoIdle
    /\ ie_entry \in IndexEntries
    /\ ie_calls = <<>>

EntrySetStage ==
    /\ Len(ie_calls) < MaxEntryCalls
    /\ \E stage \in FileStages :
          /\ ie_entry' = set_stage(ie_entry, stage)
          /\ ie_calls' = Append(ie_calls, [call |-> "set_stage", stage |-> stage])
    /\ UNCHANGED notEntryVars

EntrySetAssumedValid ==
    /\ Len(ie_calls) < MaxEntryCalls
    /\ \E value \in BOOLEAN :
          /\ ie_entry' = set_assumed_valid(ie_entry, value)
          /\ ie_calls' = Append(ie_calls, [call |-> "set_assumed_valid", value |-> value])
    /\ UNCHANGED notEntryVars

\* the entry is encoded and its bytes are decoded: the entry decoded takes its
\* place, and when the bytes are refused the entry stays
EntryFromBytes ==
    /\ Len(ie_calls) < MaxEntryCalls
    /\ \E decoded \in {index_entry_from_bytes(index_entry_as_bytes(ie_entry), 1)} :
          /\ ie_entry' = IF decoded.ok THEN decoded.entry ELSE ie_entry
          /\ ie_calls' = Append(ie_calls, [call |-> "from_bytes", ok |-> decoded.ok])
    /\ UNCHANGED notEntryVars

NextEntry ==
    \/ EntrySetStage
    \/ EntrySetAssumedValid
    \/ EntryFromBytes

SpecEntry == InitEntry /\ [][NextEntry]_vars

\* the 12 bits of the flags hold the length of the path, or 0xFFF
FlagsHoldPathLen(entry) == flag_path_len(entry) = default_flags(Len(entry.path))

\* C25: every IndexEntry reachable through try_from_file, decoding and any
\* sequence of set_stage and set_assumed_valid calls has
\* flags & 0xFFF = min(length of the path in bytes, 0xFFF): the setters never
\* change the 12 bits of the path length.
C25_FlagsHoldPathLen ==
    ie_entry # <<>> => FlagsHoldPathLen(ie_entry)

\* what holds of the entries no setter was called on
C25_FlagsHoldPathLen_NoSetter ==
    (ie_entry # <<>> /\ \A i \in 1..Len(ie_calls) : ie_calls[i].call = "from_bytes") =>
        /\ FlagsHoldPathLen(ie_entry)
        /\ \A i \in 1..Len(ie_calls) : ie_calls[i].ok

----------------------------------------------------------------------------
(* The tree builder (object/tree/builder.rs) *)

\* TreeBuilder::new (lines 18-23)
TreeBuilderNew == [entries |-> <<>>, subtrees |-> [some |-> FALSE, map |-> EmptyMap]]

\* the directories of a working tree that holds `files`
DirectoriesOf(files) ==
    UNION {{JoinWith(SubSeq(PathComponents(f), 1, k), <<SLASH_BYTE>>) :
               k \in 1..(Len(PathComponents(f)) - 1)} : f \in files}

\* Path::is_dir: the path, taken from the current directory, is a directory
is_dir(path, files) == path \in DirectoriesOf(files)

\* utils::path::strip_root (utils/path.rs lines 20-24)
strip_root(path) ==
    LET components == PathComponents(path)
    IN [root |-> Head(components), stripped |-> JoinWith(Tail(components), <<SLASH_BYTE>>)]

RECURSIVE add_object(_, _, _, _, _)
\* TreeBuilder::add_object (lines 28-59)
add_object(self, mode, path, hash, files) ==
    IF is_dir(path, files) THEN self
    ELSE IF Len(PathComponents(path)) > 1
    THEN LET subtrees == self.subtrees.map
             parts == strip_root(path)
             tree == IF parts.root \in DOMAIN subtrees THEN subtrees[parts.root]
                     ELSE TreeBuilderNew
         IN [self EXCEPT !.subtrees =
                [some |-> TRUE,
                 map |-> MapInsert(subtrees, parts.root,
                                   add_object(tree, mode, parts.stripped, hash, files))]]
    ELSE [self EXCEPT !.entries = Append(@, TreeEntry(mode, path, hash))]

\* PathBuf::join of a directory and a relative path
PathJoin(dir, path) == dir \o <<SLASH_BYTE>> \o path

RECURSIVE build_entries(_, _)
\* TreeBuilder::build_entries (lines 62-76); the HashMap yields the subtrees in
\* the order `order` gives to their names
build_entries(self, order) ==
    LET roots == DOMAIN self.subtrees.map
        nth(k) == CHOOSE r \in roots :
                      Cardinality({q \in roots : order[q] < order[r]}) = k - 1
        subentries(r) ==
            LET se == build_entries(self.subtrees.map[r], order)
            IN [i \in 1..Len(se) |-> [se[i] EXCEPT !.path = PathJoin(r, @)]]
    IN self.entries \o Concat([k \in 1..Cardinality(roots) |-> subentries(nth(k))])

\* TreeBuilder::build (lines 80-84)
tree_builder_build(self, order) == Tree(build_entries(self, order))


\* how many objects are added to a tree builder
MaxTreeObjects == 3

\* "x", "l/x", "a/l", "a/b/x": the files a working tree may hold
TreeFiles ==
    {<<120>>, <<108, SLASH_BYTE, 120>>, <<97, SLASH_BYTE, 108>>,
     <<97, SLASH_BYTE, 98, SLASH_BYTE, 120>>}

\* the names of the directories and files above
TreeNames == UNION {{c : c \in {PathComponents(f)[i] : i \in 1..Len(PathComponents(f))}} :
                       f \in TreeFiles}

\* the orders a HashMap may yield the names in
TreeOrders == {o \in [TreeNames -> 1..Cardinality(TreeNames)] :
                  \A p, q \in TreeNames : p # q => o[p] # o[q]}

\* 0o100644 and 0o100755
FileModes == {33188, 33261}

InitTree ==
    /\ StatusIdle
    /\ CodecIdle
    /\ StoreIdle
    /\ EntryIdle
    /\ WritersIdle
    /\ IndexIdle
    /\ RepoIdle
    /\ tb_pc = "adding"
    /\ tb_files \in SUBSET TreeFiles
    /\ tb_builder = TreeBuilderNew
    /\ tb_added = {}
    /\ tb_tree = <<>>

\* commit (commands/commit.rs lines 17-20): one index entry added
TreeAddObject ==
    /\ tb_pc = "adding"
    /\ Cardinality(tb_added) < MaxTreeObjects
    /\ \E path \in tb_files \ {t.path : t \in tb_added}, mode \in FileModes,
          hash \in ObjectHashes :
          /\ tb_builder' = add_object(tb_builder, mode, path, hash, tb_files)
          /\ tb_added' = tb_added \cup {TreeEntry(mode, path, hash)}
    /\ UNCHANGED <<tb_pc, tb_files, tb_tree>>
    /\ UNCHANGED notTreeVars

TreeBuild ==
    /\ tb_pc = "adding"
    /\ \E order \in TreeOrders : tb_tree' = tree_builder_build(tb_builder, order)
    /\ tb_pc' = "built"
    /\ UNCHANGED <<tb_files, tb_builder, tb_added>>
    /\ UNCHANGED notTreeVars

NextTree ==
    \/ TreeAddObject
    \/ TreeBuild

SpecTree == InitTree /\ [][NextTree]_vars

----------------------------------------------------------------------------
(* Claims about the tree builder *)

\* C10: the entries of the tree built from (mode, path, hash) triples of
\* distinct relative file paths are exactly the triples added: one entry for
\* each, with its whole path, mode and hash, and no other entry.
C10_TreeHoldsEveryTriple ==
    tb_pc = "built" =>
        /\ {tb_tree.entries[i] : i \in 1..Len(tb_tree.entries)} = tb_added
        /\ Len(tb_tree.entries) = Cardinality(tb_added)

\* the triples whose paths meet no directory of the working tree on their way
\* down are all in the tree, and nothing else is
C10_NoEntryInvented ==
    tb_pc = "built" =>
        /\ {tb_tree.entries[i] : i \in 1..Len(tb_tree.entries)} \subseteq tb_added
        /\ \A i, j \in 1..Len(tb_tree.entries) :
              tb_tree.entries[i] = tb_tree.entries[j] => i = j


\* C20: the Tree object a tree builder emits lists its entries in
\* lexicographic path order (so that the insertion order of the same triples
\* does not show in its encoding)
C20_TreeEntriesInPathOrder ==
    tb_pc = "built" =>
        \A i, j \in 1..Len(tb_tree.entries) :
            i < j => BytesLess(tb_tree.entries[i].path, tb_tree.entries[j].path)

----------------------------------------------------------------------------
(* The repository on disk and what the commands read from it
   (fs/repo.rs, fs/index.rs, commands/status/read.rs) *)

\* "ref: "
HEAD_CONTENT_HEADER == <<114, 101, 102, 58, 32>>
\* "ref: refs/heads/main": what init writes to HEAD
DEFAULT_HEAD == <<114, 101, 102, 58, 32, 114, 101, 102, 115, 47, 104, 101, 97, 100, 115, 47, 109, 97, 105, 110>>

\* the bytes str::trim_end and str::trim take away
IsWhitespace(c) == c \in {9, 10, 11, 12, 13, SPACE_BYTE}

\* str::trim_end
TrimEnd(str) ==
    LET kept == {i \in 1..Len(str) : ~IsWhitespace(str[i])}
    IN IF kept = {} THEN <<>>
       ELSE SubSeq(str, 1, CHOOSE i \in kept : \A j \in kept : j <= i)

\* str::trim
Trim(str) ==
    LET kept == {i \in 1..Len(str) : ~IsWhitespace(str[i])}
    IN IF kept = {} THEN <<>>
       ELSE SubSeq(TrimEnd(str), CHOOSE i \in kept : \A j \in kept : i <= j,
                   Len(TrimEnd(str)))

\* get_current_branch_path (fs/repo.rs lines 14-27): the path HEAD names, from
\* the repository folder
get_current_branch_path(files) ==
    With(TrimEnd(ToStringLossy(files.head)), LAMBDA path_str :
    With(Len(HEAD_CONTENT_HEADER), LAMBDA n :
    IF Len(path_str) >= n /\ SubSeq(path_str, 1, n) = HEAD_CONTENT_HEADER
    THEN [ok |-> TRUE, path |-> SubSeq(path_str, n + 1, Len(path_str))]
    ELSE Failed("HEAD file had an incorrect header")))

\* get_last_commit_hash (fs/repo.rs lines 36-49)
get_last_commit_hash(files) ==
    With(get_current_branch_path(files), LAMBDA path :
    IF ~path.ok THEN Failed("could not get current branch path")
    ELSE IF path.path \notin DOMAIN files.refs
         THEN [ok |-> TRUE, some |-> FALSE, hash |-> HashDefault]
    ELSE With(files.refs[path.path], LAMBDA bytes :
         With(HashFromStr(Trim(bytes)), LAMBDA hash :
         IF ~IsUtf8(bytes) THEN Failed("could not read current branch as a string")
         ELSE IF ~hash.ok THEN Failed("could not create a hash from the data read")
         ELSE [ok |-> TRUE, some |-> TRUE, hash |-> hash.hash])))

\* Index::default (index/index.rs lines 143-152)
IndexDefault == Index(INDEX_VERSION_NUMBER, 0, <<>>)

\* a read_index_file that leaves an empty index file where it found none
read_index_file_creating(files) ==
    IF ~files.index.exists
    THEN [ok |-> TRUE, index |-> IndexDefault,
          files |-> [files EXCEPT !.index =
                        [exists |-> TRUE, bytes |-> index_as_bytes(IndexDefault)]]]
    ELSE With(index_from_bytes(files.index.bytes), LAMBDA index :
         IF index.ok THEN [ok |-> TRUE, index |-> index.index, files |-> files]
         ELSE [ok |-> FALSE, error |-> "could not create index from index file's data",
               files |-> files])

\* read_index_file (fs/index.rs lines 9-24); `files` comes back as the call
\* leaves the files
read_index_file(files) ==
    IF ~files.index.exists
    THEN [ok |-> TRUE, index |-> IndexDefault, files |-> files]
    ELSE With(index_from_bytes(files.index.bytes), LAMBDA index :
         IF index.ok THEN [ok |-> TRUE, index |-> index.index, files |-> files]
         ELSE [ok |-> FALSE, error |-> "could not create index from index file's data",
               files |-> files])

\* write_index_file (fs/index.rs lines 26-34): the files after the call
write_index_file(files, index) ==
    [files EXCEPT !.index = [exists |-> TRUE, bytes |-> index_as_bytes(index)]]


\* std::fs::Metadata of a file of the working tree
file_metadata(file) ==
    [ctime |-> 1, ctime_nsec |-> 0, mtime |-> file.mtime, mtime_nsec |-> 0,
     device |-> 1, inode |-> 1, mode |-> 33188, uid |-> 1000, gid |-> 1000,
     size |-> Len(file.data)]

\* IndexEntryCache::try_from_metadata
cache_try_from_metadata(meta) ==
    [size |-> meta.size, mtime |-> meta.mtime, device |-> meta.device, inode |-> meta.inode]

\* IndexEntry::cache_data: the metadata an entry records
entry_cache_data(entry) ==
    [size |-> entry.file_size, mtime |-> entry.modification_time_sec,
     device |-> entry.device, inode |-> entry.inode]

RECURSIVE get_subtree(_, _, _)
\* get_subtree (object/tree/utils.rs lines 32-54)
get_subtree(path, hash, files) ==
    With(read_object(files.objects, hash), LAMBDA tree :
    IF ~tree.ok THEN Failed("could not read tree")
    ELSE IF tree.object.kind # "tree" THEN Failed("expected a tree object")
    ELSE With(tree.object.entries, LAMBDA entries :
         With([i \in 1..Len(entries) |->
                 With(PathJoin(path, entries[i].path), LAMBDA whole_path :
                 IF is_dir(whole_path, DOMAIN files.wt)
                 THEN get_subtree(whole_path, entries[i].hash, files)
                 ELSE [ok |-> TRUE,
                       entries |-> <<[entries[i] EXCEPT !.path = whole_path]>>])],
              LAMBDA sub :
         IF \E i \in 1..Len(entries) : ~sub[i].ok
         THEN Failed("could not get subtree paths")
         ELSE [ok |-> TRUE,
               entries |-> Concat([i \in 1..Len(entries) |-> sub[i].entries])])))

\* get_all_tree_entries (object/tree/utils.rs lines 16-28)
get_all_tree_entries(entries, files) ==
    With([i \in 1..Len(entries) |->
            IF is_dir(entries[i].path, DOMAIN files.wt)
            THEN get_subtree(entries[i].path, entries[i].hash, files)
            ELSE [ok |-> TRUE, entries |-> <<entries[i]>>]],
         LAMBDA sub :
    IF \E i \in 1..Len(entries) : ~sub[i].ok
    THEN Failed("could not get subtree paths")
    ELSE [ok |-> TRUE, entries |-> Concat([i \in 1..Len(entries) |-> sub[i].entries])])

\* HashMap::insert of every entry, in order: of two entries of one path the
\* later one stays
CommitDataOf(entries) ==
    [p \in {entries[i].path : i \in 1..Len(entries)} |->
        entries[CHOOSE i \in 1..Len(entries) :
                    /\ entries[i].path = p
                    /\ \A j \in 1..Len(entries) : entries[j].path = p => j <= i].hash]

\* read_commit_data (commands/status/read.rs lines 45-78)
read_commit_data(files) ==
    With(get_last_commit_hash(files), LAMBDA previous_commit_hash :
    IF ~previous_commit_hash.ok
    THEN [ok |-> FALSE, error |-> "could not get last commit hash", files |-> files]
    ELSE IF ~previous_commit_hash.some
         THEN [ok |-> TRUE, some |-> FALSE, commit_data |-> EmptyMap, files |-> files]
    ELSE With(read_object(files.objects, previous_commit_hash.hash), LAMBDA commit_obj :
         IF ~commit_obj.ok
         THEN [ok |-> FALSE, error |-> "could not read last commit", files |-> files]
         ELSE IF commit_obj.object.kind # "commit"
              THEN [ok |-> FALSE, error |-> "expected tree", files |-> files]
         ELSE With(read_object(files.objects, commit_obj.object.tree), LAMBDA tree_obj :
              IF ~tree_obj.ok
              THEN [ok |-> FALSE, error |-> "could not read commit tree", files |-> files]
              ELSE IF tree_obj.object.kind # "tree"
                   THEN [ok |-> FALSE, error |-> "expected commit", files |-> files]
              ELSE With(get_all_tree_entries(tree_obj.object.entries, files),
                        LAMBDA all_entries :
                   IF ~all_entries.ok
                   THEN [ok |-> FALSE, error |-> "could not get all tree entries",
                         files |-> files]
                   ELSE [ok |-> TRUE, some |-> TRUE,
                         commit_data |-> CommitDataOf(all_entries.entries),
                         files |-> files]))))

\* the map add and read_index_data fill from the entries of an index; of two
\* entries of one path the later one stays
IndexDataOf(index) ==
    LET entries == index.entries
        last(p) == CHOOSE i \in 1..Len(entries) :
                      /\ entries[i].path = p
                      /\ \A j \in 1..Len(entries) : entries[j].path = p => j <= i
    IN [p \in {entries[i].path : i \in 1..Len(entries)} |->
          [hash |-> entries[last(p)].object_hash,
           cache |-> entry_cache_data(entries[last(p)])]]

\* read_index_data (commands/status/read.rs lines 87-104)
read_index_data(files) ==
    With(read_index_file(files), LAMBDA index :
    IF ~index.ok
    THEN [ok |-> FALSE, error |-> "could not read index file", files |-> index.files]
    ELSE [ok |-> TRUE, index_data |-> IndexDataOf(index.index), files |-> index.files])

\* BuferedFile::try_from_path (fs/path.rs lines 26-44) as a FileData
bufered_file(path, files) ==
    FileData(path, files.wt[path].data, TRUE,
             cache_try_from_metadata(file_metadata(files.wt[path])))

\* read_working_tree_data (commands/status/read.rs lines 16-32): the files of
\* the working tree, which holds no .gitignore; read_dir gives them in any order
read_working_tree_data(files) ==
    [ok |-> TRUE,
     working_tree_data |-> {bufered_file(p, files) : p \in DOMAIN files.wt},
     files |-> files]

\* status (commands/status/status.rs lines 54-66) up to the call of
\* determine_statuses, which works on what was read
status(files) ==
    With(read_commit_data(files), LAMBDA commit_data_opt :
    IF ~commit_data_opt.ok
    THEN [ok |-> FALSE, error |-> commit_data_opt.error, files |-> commit_data_opt.files]
    ELSE With(read_index_data(commit_data_opt.files), LAMBDA from_index :
         IF ~from_index.ok
         THEN [ok |-> FALSE, error |-> from_index.error, files |-> from_index.files]
         ELSE With(read_working_tree_data(from_index.files), LAMBDA from_working_tree :
              [ok |-> TRUE, no_commits |-> ~commit_data_opt.some,
               commit_data |-> commit_data_opt.commit_data,
               index_data |-> from_index.index_data,
               working_tree_data |-> from_working_tree.working_tree_data,
               files |-> from_working_tree.files])))

----------------------------------------------------------------------------
(* add (commands/add.rs) *)

\* hash_from_reader (lines 68-82): the encoded blob of a file and its hash
hash_from_reader(data) ==
    LET bytes == object_as_bytes(from_bytes_new_blob(data)).bytes
    IN [bytes |-> bytes, hash |-> HashCompute(bytes)]

\* an add that puts the entry of a file in the index and writes no blob
add_new_file_unwritten(st, o, files) ==
    With(hash_from_reader(o.data), LAMBDA hashed :
    With(try_from_file(o.path, file_metadata(files.wt[o.path]), hashed.hash),
         LAMBDA index_entry :
    [st EXCEPT !.index_builder = add_index_entry(@, index_entry)]))

\* lines 116-127: the entry of a file is made, its blob written, the entry added
add_new_file(st, o, files) ==
    With(hash_from_reader(o.data), LAMBDA hashed :
    With(try_from_file(o.path, file_metadata(files.wt[o.path]), hashed.hash),
         LAMBDA index_entry :
    [st EXCEPT !.objects = write_to_object_dir(@, hashed.bytes, hashed.hash),
               !.index_builder = add_index_entry(@, index_entry)]))

\* the `?` of lines 101 and 117: the loop is left with the error
could_not_hash_file(st) == [st EXCEPT !.ok = FALSE, !.error = "could not hash file"]

\* the body of the loop over the files (lines 91-128) for the file o;
\* hash_from_reader fails when the reader of the file cannot be read
add_file(st, o, files) ==
    IF o.path \in DOMAIN st.index_data
    THEN With(st.index_data[o.path], LAMBDA found :
         With([st EXCEPT !.index_data = MapRemove(@, o.path)], LAMBDA removed :
         IF matches_loose(found.cache, o.cache)
         THEN removed
         ELSE IF ~o.readable THEN could_not_hash_file(removed)
         ELSE IF found.hash = hash_from_reader(o.data).hash
              THEN add_new_file(
                       [removed EXCEPT !.index_builder =
                           remove_index_entry_by_path(@, o.path)], o, files)
              ELSE removed))
    ELSE IF ~o.readable THEN could_not_hash_file(st)
    ELSE add_new_file(st, o, files)

RECURSIVE add_files_skipping(_, _, _)
\* a loop that goes on to the next file when one could not be hashed
add_files_skipping(st, objects, files) ==
    IF objects = <<>> THEN [st EXCEPT !.ok = TRUE]
    ELSE add_files_skipping(add_file(st, Head(objects), files), Tail(objects), files)

RECURSIVE add_files(_, _, _)
\* the loop of lines 91-128, left at the first file that could not be hashed
add_files(st, objects, files) ==
    IF objects = <<>> \/ ~st.ok THEN st
    ELSE add_files(add_file(st, Head(objects), files), Tail(objects), files)

RECURSIVE remove_paths(_, _)
\* lines 130-134: the paths left in index_data are taken out of the index
remove_paths(index_builder, paths) ==
    IF paths = {} THEN index_builder
    ELSE LET p == CHOOSE q \in paths : TRUE
         IN remove_paths(remove_index_entry_by_path(index_builder, p), paths \ {p})

\* what the file system does to the files of one add: File::open fails for
\* the paths of `closed`, reading an opened file fails for those of `unreadable`
NoFaults == [closed |-> {}, unreadable |-> {}]

\* add (lines 23-141).  `every` is `add .`; then `listing` is the files of the
\* root as read_dir gives them, and otherwise it is the paths given
add(files, every, listing, faults) ==
    IF \E i \in 1..Len(listing) : listing[i] \notin DOMAIN files.wt
    THEN [ok |-> FALSE, error |-> "could not canonicalize path", files |-> files]
    ELSE IF listing = <<>>
         THEN [ok |-> TRUE, error |-> "", files |-> files]
    ELSE IF \E i \in 1..Len(listing) : listing[i] \in faults.closed
         THEN [ok |-> FALSE, error |-> "could not get bufered files", files |-> files]
    ELSE With([i \in 1..Len(listing) |->
                 [bufered_file(listing[i], files) EXCEPT
                     !.readable = listing[i] \notin faults.unreadable]],
              LAMBDA objects :
         With(read_index_file(files), LAMBDA previous_index :
         IF ~previous_index.ok
         THEN [ok |-> FALSE, error |-> "could not read index file", files |-> files]
         ELSE With(add_files([ok |-> TRUE, error |-> "",
                              index_data |-> IndexDataOf(previous_index.index),
                              index_builder |-> previous_index.index,
                              objects |-> files.objects], objects, files),
                   LAMBDA st :
              IF ~st.ok
              THEN [ok |-> FALSE, error |-> st.error,
                    files |-> [files EXCEPT !.objects = st.objects]]
              ELSE With(IF every THEN remove_paths(st.index_builder, DOMAIN st.index_data)
                        ELSE st.index_builder,
                        LAMBDA index_builder :
                   [ok |-> TRUE, error |-> "",
                    files |-> write_index_file([files EXCEPT !.objects = st.objects],
                                               build(index_builder))]))))

----------------------------------------------------------------------------
(* commit (commands/commit.rs) *)

\* 0o040000, the mode of the entry of a subtree
DIRECTORY_MODE == 16384

\* "Josué Torres <josue.ger.torres.gar@gmail.com>"
DEFAULT_IDENTIFIER == <<74, 111, 115, 117, 195, 169, 32, 84, 111, 114, 114, 101, 115, 32, 60, 106, 111, 115, 117, 101, 46, 103, 101, 114, 46, 116, 111, 114, 114, 101, 115, 46, 103, 97, 114, 64, 103, 109, 97, 105, 108, 46, 99, 111, 109, 62>>

\* CommitUser::default (commit_user.rs lines 21-28) at the time `now`, where
\* the local offset is UTC
commit_user_default(kind, now) == CommitUser(kind, DEFAULT_IDENTIFIER, now, UtcOffset(0, 0, 0))

RECURSIVE add_objects(_, _, _)
\* commit, lines 17-20: every entry of the index is added to the tree builder
add_objects(tree_builder, entries, files) ==
    IF entries = <<>> THEN tree_builder
    ELSE add_objects(add_object(tree_builder, Head(entries).mode, Head(entries).path,
                                Head(entries).object_hash, DOMAIN files.wt),
                     Tail(entries), files)

\* the subtrees of a tree builder, in the order of their names
SubtreeNames(self) ==
    With(DOMAIN self.subtrees.map, LAMBDA roots :
    [k \in 1..Cardinality(roots) |->
        CHOOSE r \in roots : Cardinality({q \in roots : BytesLess(q, r)}) = k - 1])

RECURSIVE build_and_write(_, _)
RECURSIVE write_subtrees(_, _, _, _)
\* TreeBuilder::build_and_write: the subtrees are written first, each gets an
\* entry with the directory mode in the tree above it, then the tree is written
build_and_write(self, objects) ==
    With(write_subtrees(self, SubtreeNames(self), objects, self.entries), LAMBDA all :
    IF ~all.ok THEN [ok |-> FALSE, hash |-> HashDefault, objects |-> objects]
    ELSE write_object(all.objects, Tree(all.entries)))

\* the subtrees named are written and their entries put after `entries`
write_subtrees(self, names, objects, entries) ==
    IF names = <<>> THEN [ok |-> TRUE, objects |-> objects, entries |-> entries]
    ELSE With(build_and_write(self.subtrees.map[Head(names)], objects), LAMBDA sub :
         IF ~sub.ok THEN [ok |-> FALSE, objects |-> objects, entries |-> <<>>]
         ELSE write_subtrees(self, Tail(names), sub.objects,
                             Append(entries,
                                    TreeEntry(DIRECTORY_MODE, Head(names), sub.hash))))

\* a commit that never names a parent
commit_parents_none(has_parent, parent_hash) == <<>>

\* lines 29-39: the parents of the commit, the hash the branch held if it existed
commit_parents(has_parent, parent_hash) ==
    IF has_parent THEN <<parent_hash>> ELSE <<>>

\* commit (lines 13-55) with the message given, at the time `now`
commit(files, message, now) ==
    With(read_index_file(files), LAMBDA index :
    IF ~index.ok
    THEN [ok |-> FALSE, error |-> "could not read index file", files |-> files]
    ELSE With(build_and_write(add_objects(TreeBuilderNew, index.index.entries, files),
                              files.objects),
              LAMBDA tree :
         IF ~tree.ok
         THEN [ok |-> FALSE, error |-> "could not write tree object", files |-> files]
         ELSE With([files EXCEPT !.objects = tree.objects], LAMBDA with_tree :
              With(get_current_branch_path(files), LAMBDA current_branch :
              IF ~current_branch.ok
              THEN [ok |-> FALSE, error |-> "could not get current branch",
                    files |-> with_tree]
              ELSE With(current_branch.path \in DOMAIN files.refs, LAMBDA has_parent :
                   With(IF has_parent
                        THEN HashFromStr(ToStringLossy(files.refs[current_branch.path]))
                        ELSE [ok |-> TRUE, hash |-> HashDefault],
                        LAMBDA parent :
                   IF ~parent.ok
                   THEN [ok |-> FALSE,
                         error |-> "could not get hash from contents on current branch",
                         files |-> with_tree]
                   ELSE With(write_object(
                                 tree.objects,
                                 Commit(tree.hash,
                                        commit_parents(has_parent, parent.hash),
                                        commit_user_default("Author", now),
                                        commit_user_default("Committer", now), message)),
                             LAMBDA written :
                        IF ~written.ok
                        THEN [ok |-> FALSE, error |-> "could not write commit file",
                              files |-> with_tree]
                        ELSE [ok |-> TRUE,
                              files |-> [files EXCEPT
                                            !.objects = written.objects,
                                            !.refs = MapInsert(@, current_branch.path,
                                                               HashToString(written.hash))]]
                   )))))))

----------------------------------------------------------------------------
(* A repository, the files edited in it and the commands run in it *)

\* how many commits are made
MaxCommits == 1

\* how many times the user writes or deletes a file
MaxEdits == 2

\* "a" and "b", files of the root of the working tree
RepoPaths == {<<97>>, <<98>>}

\* "m"
CommitMessages == {<<109>>}

\* the times commit reads from the clock
CommitTimes == {Timestamp(1700000000, 0)}

\* the orders read_dir may give the files of the root in
Listings(paths) ==
    {l \in SeqsUpTo(paths, Cardinality(paths)) :
        Len(l) = Cardinality(paths) /\ {l[i] : i \in 1..Len(l)} = paths}

\* the faults of one add: at most one of the files cannot be opened or read
Faults(paths) ==
    {NoFaults} \cup {[closed |-> {p}, unreadable |-> {}] : p \in paths}
               \cup {[closed |-> {}, unreadable |-> {p}] : p \in paths}

\* the commit objects of the objects directory
CommitsIn(files) ==
    {k \in DOMAIN files.objects :
        /\ Len(files.objects[k]) >= Len(COMMIT_STRING)
        /\ SubSeq(files.objects[k], 1, Len(COMMIT_STRING)) = COMMIT_STRING}

\* the repository init leaves (commands/init.rs lines 15-47) in an empty directory
InitRepo ==
    /\ StatusIdle
    /\ CodecIdle
    /\ StoreIdle
    /\ EntryIdle
    /\ WritersIdle
    /\ IndexIdle
    /\ TreeIdle
    /\ repo = [wt |-> EmptyMap, index |-> [exists |-> FALSE, bytes |-> <<>>],
               objects |-> EmptyMap, head |-> DEFAULT_HEAD, refs |-> EmptyMap]
    /\ repo_edits = 0
    /\ repo_last = [op |-> "init"]

\* the user writes a file of the working tree
RepoWriteFile ==
    /\ pc = "idle"
    /\ repo_edits < MaxEdits
    /\ repo_edits' = repo_edits + 1
    /\ \E path \in RepoPaths, data \in Contents, mtime \in Mtimes :
          repo' = [repo EXCEPT !.wt = MapInsert(@, path, [data |-> data, mtime |-> mtime])]
    /\ repo_last' = [op |-> "write"]
    /\ UNCHANGED notRepoVars

\* the user deletes a file of the working tree
RepoDeleteFile ==
    /\ pc = "idle"
    /\ repo_edits < MaxEdits
    /\ repo_edits' = repo_edits + 1
    /\ \E path \in DOMAIN repo.wt : repo' = [repo EXCEPT !.wt = MapRemove(@, path)]
    /\ repo_last' = [op |-> "delete"]
    /\ UNCHANGED notRepoVars

\* the user renames a file of the working tree: its content and its metadata
\* go with it
RepoMoveFile ==
    /\ pc = "idle"
    /\ repo_edits < MaxEdits
    /\ repo_edits' = repo_edits + 1
    /\ \E from \in DOMAIN repo.wt, to \in RepoPaths :
          /\ from # to
          /\ repo' = [repo EXCEPT !.wt = MapInsert(MapRemove(@, from), to, repo.wt[from])]
    /\ repo_last' = [op |-> "move"]
    /\ UNCHANGED notRepoVars

\* `add .`
RepoAddEvery ==
    /\ pc = "idle"
    /\ \E listing \in Listings(DOMAIN repo.wt) :
          \E result \in {add(repo, TRUE, listing, NoFaults)} :
             /\ repo' = result.files
             /\ repo_last' = [op |-> "add", every |-> TRUE, ok |-> result.ok, paths |-> listing,
                              before |-> repo, faults |-> NoFaults,
                              error |-> result.error]
    /\ UNCHANGED repo_edits
    /\ UNCHANGED notRepoVars

\* `add <path>`
RepoAddPath ==
    /\ pc = "idle"
    /\ \E path \in RepoPaths :
          \E result \in {add(repo, FALSE, <<path>>, NoFaults)} :
             /\ repo' = result.files
             /\ repo_last' = [op |-> "add", every |-> FALSE, ok |-> result.ok, paths |-> <<path>>,
                              before |-> repo, faults |-> NoFaults,
                              error |-> result.error]
    /\ UNCHANGED repo_edits
    /\ UNCHANGED notRepoVars

RepoCommit ==
    /\ pc = "idle"
    /\ Cardinality(CommitsIn(repo)) < MaxCommits
    /\ \E message \in CommitMessages, now \in CommitTimes :
          \E result \in {commit(repo, message, now)} :
             /\ repo' = result.files
             /\ repo_last' = [op |-> "commit", ok |-> result.ok, before |-> repo]
    /\ UNCHANGED repo_edits
    /\ UNCHANGED notRepoVars

\* the orders a Vec may hold the elements of a set in
OrdersOf(S) ==
    {l \in [1..Cardinality(S) -> S] : \A i, j \in 1..Cardinality(S) : i # j => l[i] # l[j]}

\* what the command before left in repo_last, for the status that follows it
Previous(last) ==
    IF last.op = "add"
    THEN [op |-> "add", ok |-> last.ok, paths |-> last.paths, before |-> last.before]
    ELSE [op |-> last.op]

\* determine_statuses is entered with what status read (status.rs line 63)
StatusBegins(cd, idx, wtd) ==
    /\ pc' = PhaseOf(wtd, idx, cd, EmptyMap)
    /\ commit_data' = cd
    /\ index_data' = idx
    /\ working_tree_data' = wtd
    /\ file_statuses' = <<>>
    /\ possibly_moved_files' = EmptyMap
    /\ file_hash' = HashDefault
    /\ index_hash' = HashDefault
    /\ reads' = {}
    /\ given' = [commit |-> cd, index |-> idx, wt |-> wtd]
    /\ hashes_used' = EmptyMap

\* `status`: the commit, the index and the working tree are read (status.rs
\* lines 54-61) and determine_statuses is entered; the files of the working
\* tree come in the order read_dir gives them
RepoStatus ==
    /\ pc = "idle"
    /\ \E result \in {status(repo)} :
          /\ repo' = result.files
          /\ repo_last' = [op |-> "status", ok |-> result.ok, before |-> repo,
                           previous |-> Previous(repo_last),
                           read |-> IF result.ok
                                    THEN [commit_data |-> result.commit_data,
                                          index_data |-> result.index_data,
                                          working_tree_data |-> result.working_tree_data]
                                    ELSE <<>>]
          /\ IF result.ok
             THEN \E wtd \in OrdersOf(result.working_tree_data) :
                     StatusBegins(result.commit_data, result.index_data, wtd)
             ELSE UNCHANGED statusVars
    /\ UNCHANGED repo_edits
    /\ UNCHANGED <<codecVars, storeVars, indexVars, treeVars, writerVars, entryVars>>

\* status returns (status.rs line 65): the locals of determine_statuses are
\* gone, and so is what the history kept of the reads
RepoStatusReturn ==
    /\ pc = "done"
    /\ repo_last.op = "status"
    /\ pc' = "idle"
    /\ commit_data' = EmptyMap
    /\ index_data' = EmptyMap
    /\ working_tree_data' = <<>>
    /\ file_statuses' = <<>>
    /\ possibly_moved_files' = EmptyMap
    /\ file_hash' = HashDefault
    /\ index_hash' = HashDefault
    /\ reads' = {}
    /\ given' = [commit |-> EmptyMap, index |-> EmptyMap, wt |-> <<>>]
    /\ hashes_used' = EmptyMap
    /\ repo_last' = [op |-> "status", ok |-> repo_last.ok, before |-> repo_last.before]
    /\ UNCHANGED <<repo, repo_edits>>
    /\ UNCHANGED <<codecVars, storeVars, indexVars, treeVars, writerVars, entryVars>>

Next ==
    \/ RepoWriteFile
    \/ RepoDeleteFile
    \/ RepoMoveFile
    \/ RepoAddEvery
    \/ RepoAddPath
    \/ RepoCommit
    \/ RepoStatus
    \/ StatusWorkingTreeFile
    \/ StatusDeletedFromIndex
    \/ StatusDeletedFromCommit
    \/ StatusNewFile
    \/ RepoStatusReturn

Spec == InitRepo /\ [][Next]_vars

----------------------------------------------------------------------------
(* add in a working tree where a file may fail to open or to be read *)

\* `add .` while the file system refuses one of the files
RepoAddEveryFaulty ==
    /\ pc = "idle"
    /\ \E listing \in Listings(DOMAIN repo.wt), faults \in Faults(DOMAIN repo.wt) :
          \E result \in {add(repo, TRUE, listing, faults)} :
             /\ repo' = result.files
             /\ repo_last' = [op |-> "add", every |-> TRUE, ok |-> result.ok, paths |-> listing,
                              before |-> repo, faults |-> faults,
                              error |-> result.error]
    /\ UNCHANGED repo_edits
    /\ UNCHANGED notRepoVars

\* `add <path>` while the file system refuses the file
RepoAddPathFaulty ==
    /\ pc = "idle"
    /\ \E path \in RepoPaths :
          \E faults \in Faults({path}) :
          \E result \in {add(repo, FALSE, <<path>>, faults)} :
             /\ repo' = result.files
             /\ repo_last' = [op |-> "add", every |-> FALSE, ok |-> result.ok, paths |-> <<path>>,
                              before |-> repo, faults |-> faults,
                              error |-> result.error]
    /\ UNCHANGED repo_edits
    /\ UNCHANGED notRepoVars

\* how many entries the index holds at most when two more paths are added
MaxStaged == 1

\* `add <path> <path>`: two files are named, or one file twice
RepoAddTwoPaths ==
    /\ pc = "idle"
    /\ Len(read_index_file(repo).index.entries) <= MaxStaged
    /\ \E first \in DOMAIN repo.wt, second \in DOMAIN repo.wt :
          \E result \in {add(repo, FALSE, <<first, second>>, NoFaults)} :
             /\ repo' = result.files
             /\ repo_last' = [op |-> "add", every |-> FALSE, ok |-> result.ok,
                              paths |-> <<first, second>>,
                              before |-> repo, faults |-> NoFaults,
                              error |-> result.error]
    /\ UNCHANGED repo_edits
    /\ UNCHANGED notRepoVars

NextAdd ==
    \/ RepoWriteFile
    \/ RepoDeleteFile
    \/ RepoMoveFile
    \/ RepoAddEveryFaulty
    \/ RepoAddPathFaulty
    \/ RepoAddTwoPaths

SpecAdd == InitRepo /\ [][NextAdd]_vars


----------------------------------------------------------------------------
(* adds and commits, one commit after the other *)

\* how many commits are made one after the other
MaxChain == 2

\* `commit`, again and again
RepoCommitAgain ==
    /\ pc = "idle"
    /\ Cardinality(CommitsIn(repo)) < MaxChain
    /\ \E message \in CommitMessages, now \in CommitTimes :
          \E result \in {commit(repo, message, now)} :
             /\ repo' = result.files
             /\ repo_last' = [op |-> "commit", ok |-> result.ok, before |-> repo]
    /\ UNCHANGED repo_edits
    /\ UNCHANGED notRepoVars

NextCommit ==
    \/ RepoWriteFile
    \/ RepoDeleteFile
    \/ RepoMoveFile
    \/ RepoAddEvery
    \/ RepoAddPath
    \/ RepoCommitAgain

SpecCommit == InitRepo /\ [][NextCommit]_vars

----------------------------------------------------------------------------
(* A repository after its first commit: edits, adds and status runs *)

\* the repository after the files of `paths` were written with the content
\* and the time given, `add .` was run and a commit was made
CommittedRepo(paths, data, mtime) ==
    With([wt |-> [p \in paths |-> [data |-> data[p], mtime |-> mtime[p]]],
          index |-> [exists |-> FALSE, bytes |-> <<>>],
          objects |-> EmptyMap, head |-> DEFAULT_HEAD, refs |-> EmptyMap],
         LAMBDA written :
    With(add(written, TRUE,
             CHOOSE l \in Listings(paths) : TRUE, NoFaults).files, LAMBDA added :
    [before |-> added,
     after |-> commit(added, CHOOSE m \in CommitMessages : TRUE,
                      CHOOSE now \in CommitTimes : TRUE).files]))

InitCommitted ==
    /\ StatusIdle
    /\ CodecIdle
    /\ StoreIdle
    /\ EntryIdle
    /\ WritersIdle
    /\ IndexIdle
    /\ TreeIdle
    /\ \E paths \in (SUBSET RepoPaths) \ {{}} :
          \E data \in [paths -> Contents], mtime \in [paths -> Mtimes] :
             \E made \in {CommittedRepo(paths, data, mtime)} :
                /\ repo = made.after
                /\ repo_last = [op |-> "commit", ok |-> TRUE, before |-> made.before]
    /\ repo_edits = 0

NextCommitted ==
    \/ RepoWriteFile
    \/ RepoDeleteFile
    \/ RepoMoveFile
    \/ RepoAddEvery
    \/ RepoAddPath
    \/ RepoStatus
    \/ StatusWorkingTreeFile
    \/ StatusDeletedFromIndex
    \/ StatusDeletedFromCommit
    \/ StatusNewFile
    \/ RepoStatusReturn

SpecCommitted == InitCommitted /\ [][NextCommitted]_vars

----------------------------------------------------------------------------
(* Claims about the commands *)

\* the entries the index file holds for a path
EntriesOf(files, path) ==
    IF ~files.index.exists THEN <<>>
    ELSE SelectSeq(index_from_bytes(files.index.bytes).index.entries,
                   LAMBDA e : e.path = path)

\* C4: after a successful add of a path that has an index entry and whose
\* content hashes to another value than the staged one, the index holds exactly
\* one entry for the path, with the hash of the content; the entry is left as
\* it was only when the content is unchanged.
C4_AddReplacesModifiedEntry ==
    (repo_last.op = "add" /\ repo_last.ok) =>
        \A i \in 1..Len(repo_last.paths) :
            \E path \in {repo_last.paths[i]} :
            \E staged \in {EntriesOf(repo_last.before, path)} :
            \E after \in {EntriesOf(repo, path)} :
            \E current \in {BlobHash(repo.wt[path].data)} :
                /\ (staged # <<>> /\ staged[1].object_hash # current) =>
                       /\ Len(after) = 1
                       /\ after[1].object_hash = current
                /\ (staged # <<>> /\ after = staged) => staged[1].object_hash = current

\* C5: status leaves the index file, every object file, HEAD, the branch refs
\* and the files of the working tree as they were.
C5_StatusChangesNoFile ==
    repo_last.op = "status" => repo = repo_last.before

\* status has read a commit, an index and a working tree, all with files
C5_Witness ==
    /\ repo_last.op = "status"
    /\ repo_last.ok
    /\ repo = repo_last.before
    /\ repo.index.exists
    /\ DOMAIN repo.refs # {}
    /\ DOMAIN repo.objects # {}
    /\ DOMAIN repo_last.read.commit_data # {}
    /\ DOMAIN repo_last.read.index_data # {}
    /\ repo_last.read.working_tree_data # {}

\* C11: when one of the files of an add cannot be opened, or one of its files
\* that has to be hashed cannot be read, add returns an error and the index
\* file is as it was before: no entry of another file of the add is staged.
C11_FailedAddLeavesIndex ==
    repo_last.op = "add" =>
        /\ (\E i \in 1..Len(repo_last.paths) :
               \/ repo_last.paths[i] \in repo_last.faults.closed
               \/ /\ repo_last.paths[i] \in repo_last.faults.unreadable
                  /\ EntriesOf(repo_last.before, repo_last.paths[i]) = <<>>)
           => ~repo_last.ok
        /\ ~repo_last.ok => repo.index = repo_last.before.index

\* an add of two files not staged before failed at the second, which could not
\* be read, after the blob of the first was written
C11_Witness ==
    /\ repo_last.op = "add"
    /\ ~repo_last.ok
    /\ repo_last.error = "could not hash file"
    /\ Len(repo_last.paths) = 2
    /\ repo_last.paths[2] \in repo_last.faults.unreadable
    /\ EntriesOf(repo_last.before, repo_last.paths[1]) = <<>>
    /\ repo.objects # repo_last.before.objects
    /\ repo.index = repo_last.before.index

\* status has returned its records for the repository as the command before left it
StatusDoneAfter(op) ==
    /\ pc = "done"
    /\ repo_last.op = "status"
    /\ repo_last.ok
    /\ repo_last.previous.op = op

\* the records status gives for a path
StatusRecords(path) ==
    SelectSeq(file_statuses, LAMBDA r : r.path = path)

\* C15: in a repository with no commits, after an add of files none of which
\* was in the index, the index holds exactly one entry for every file added,
\* and the status that follows classifies every one of them as New with stage
\* Commit.
C15_AddedFilesAreNewStaged ==
    (/\ StatusDoneAfter("add")
     /\ repo_last.previous.ok
     /\ DOMAIN repo.refs = {}
     /\ \A i \in 1..Len(repo_last.previous.paths) :
           EntriesOf(repo_last.previous.before, repo_last.previous.paths[i]) = <<>>)
    => \A i \in 1..Len(repo_last.previous.paths) :
          /\ Len(EntriesOf(repo, repo_last.previous.paths[i])) = 1
          /\ \E record \in {StatusRecords(repo_last.previous.paths[i])} :
                /\ Len(record) = 1
                /\ record[1].status = "New"
                /\ record[1].stage_status = "Commit"

\* what does hold when the index held no entry before the add: one entry for
\* every file added, and every record status gives for one of the files is New
\* with stage Commit
C15_AddedFilesOnlyNewStaged ==
    (/\ StatusDoneAfter("add")
     /\ repo_last.previous.ok
     /\ DOMAIN repo.refs = {}
     /\ \A p \in RepoPaths : EntriesOf(repo_last.previous.before, p) = <<>>)
    => \A i \in 1..Len(repo_last.previous.paths) :
          /\ Len(EntriesOf(repo, repo_last.previous.paths[i])) = 1
          /\ \E record \in {StatusRecords(repo_last.previous.paths[i])} :
                /\ Len(record) <= 1
                /\ \A k \in 1..Len(record) :
                      record[k].status = "New" /\ record[k].stage_status = "Commit"

\* path p was added and committed, and the file was then given other content,
\* its size or its modification time no longer those the index recorded
ModifiedAfterCommit(in, p) ==
    /\ p \in DOMAIN in.commit
    /\ p \in DOMAIN in.index
    /\ in.index[p].hash = in.commit[p]
    /\ p \in WtPaths(in)
    /\ BlobHash(WtFile(in, p).data) # in.commit[p]
    /\ ~matches_loose(in.index[p].cache, WtFile(in, p).cache)

\* C16: for a file that was added and committed and whose content in the
\* working tree was then changed to other bytes, its size or modification time
\* no longer matching the cached metadata, without an add, status reports the
\* path as Modified with stage NotCommit.
C16_EditedFileIsModified ==
    (pc = "done" /\ repo_last.op = "status" /\ repo_last.ok) =>
        \A p \in RepoPaths :
            ModifiedAfterCommit(given, p) =>
                \E record \in {StatusRecords(p)} :
                    /\ Len(record) = 1
                    /\ record[1].status = "Modified"
                    /\ record[1].stage_status = "NotCommit"

\* status ran right after the user wrote other content to a committed file
C16_Witness ==
    /\ StatusDoneAfter("write")
    /\ DOMAIN repo.refs # {}
    /\ \E p \in RepoPaths :
          /\ ModifiedAfterCommit(given, p)
          /\ EntriesOf(repo, p) # <<>>
          /\ EntriesOf(repo, p)[1].object_hash # BlobHash(repo.wt[p].data)
          /\ Len(StatusRecords(p)) = 1
          /\ StatusRecords(p)[1].status = "Modified"
          /\ StatusRecords(p)[1].stage_status = "NotCommit"

\* p is in the last commit and gone from the working tree, q is a file with
\* the content committed for p that is in no commit, and the command before
\* the status was a successful `add q`
MovedAndAdded(p, q) ==
    /\ StatusDoneAfter("add")
    /\ repo_last.previous.ok
    /\ repo_last.previous.paths = <<q>>
    /\ p \in DOMAIN given.commit
    /\ p \notin DOMAIN repo.wt
    /\ q \in DOMAIN repo.wt
    /\ q \notin DOMAIN given.commit
    /\ BlobHash(repo.wt[q].data) = given.commit[p]

\* C17: after a file is committed at path p, p is deleted from the working
\* tree, a file of the same content is created at a new path q and `add q` is
\* run, status gives exactly one record for the pair, Moved{previous: p} with
\* path q, no Deleted record for p and no New record for q.
C17_MovedFileIsMoved ==
    \A p, q \in RepoPaths : MovedAndAdded(p, q) => MovedOnly(p, q)

\* a committed file was renamed, the new path added with `add q`, and status
\* gave the one Moved record, p still in the index
C17_Witness ==
    \E p, q \in RepoPaths :
        /\ MovedAndAdded(p, q)
        /\ repo_last.previous.before.wt = repo.wt
        /\ EntriesOf(repo_last.previous.before, q) = <<>>
        /\ EntriesOf(repo, p) # <<>>
        /\ Len(file_statuses) = 1
        /\ file_statuses[1] = FileWithStatus(q, "Moved", p, "NotCommit")

\* main (main.rs lines 17-28): the message of a command that returned Ok goes
\* to the standard output, the error of one that returned Err to the standard
\* error, and main returns: the process exits with the code of a main that
\* returned ()
main(result) ==
    IF result.ok
    THEN [stdout |-> TRUE, stderr |-> FALSE, exit_code |-> 0]
    ELSE [stdout |-> FALSE, stderr |-> TRUE, exit_code |-> 0]

\* C21: the exit code of the process is 0 when the command returned success
\* and non-zero when it returned an error.
C21_ExitCodeReflectsResult ==
    repo_last.op = "add" => (main(repo_last).exit_code = 0 <=> repo_last.ok)

\* what main does tell apart: the stream it prints to
C21_StreamReflectsResult ==
    repo_last.op = "add" => (main(repo_last).stderr <=> ~repo_last.ok)

\* the paths of a sequence of paths
PathsOf(paths) == {paths[i] : i \in 1..Len(paths)}

\* an explicit list leaves the entry of every path it does not name as it was
AddPathKeepsOthers ==
    (repo_last.op = "add" /\ repo_last.ok /\ ~repo_last.every) =>
        \A p \in RepoPaths \ PathsOf(repo_last.paths) :
            EntriesOf(repo, p) = EntriesOf(repo_last.before, p)

\* C23: `add .` removes from the index every entry whose path is not among
\* the files of the working tree it processed, and add with an explicit list
\* of files never removes or changes the entry of a path the list does not
\* name.
C23_AddEveryPrunesAddPathKeeps ==
    /\ (repo_last.op = "add" /\ repo_last.ok /\ repo_last.every) =>
           \A p \in RepoPaths \ PathsOf(repo_last.paths) : EntriesOf(repo, p) = <<>>
    /\ AddPathKeepsOthers

\* what `add .` does when it found a file to process, and what the explicit
\* list does
C23_AddEveryPrunesWhenFilesLeft ==
    /\ (repo_last.op = "add" /\ repo_last.ok /\ repo_last.every
         /\ repo_last.paths # <<>>) =>
           \A p \in RepoPaths \ PathsOf(repo_last.paths) : EntriesOf(repo, p) = <<>>
    /\ AddPathKeepsOthers

\* the hash a branch file holds
RefHash(files) ==
    HashFromStr(ToStringLossy(files.refs[get_current_branch_path(files).path])).hash

\* the branch file exists
HasRef(files) == get_current_branch_path(files).path \in DOMAIN files.refs

\* the entries of the index file
IndexEntriesOf(files) == read_index_file(files).index.entries

RECURSIVE ChainFrom(_, _, _)
\* how many commits the first parents lead through from `hash`, at most `fuel`
ChainFrom(files, hash, fuel) ==
    IF fuel = 0 THEN 0
    ELSE With(read_object(files.objects, hash), LAMBDA read :
         IF ~read.ok \/ read.object.kind # "commit" THEN 0
         ELSE IF read.object.parents = <<>> THEN 1
         ELSE 1 + ChainFrom(files, read.object.parents[1], fuel - 1))

\* C26: after a successful commit the branch file holds the hash of the
\* commit object just written; its tree is the tree of the entries of the
\* index; its parents are none when the branch file did not exist and the
\* hash the file held otherwise; the chain of parents from the branch holds
\* as many commits as were made.
C26_CommitAdvancesBranch ==
    (repo_last.op = "commit" /\ repo_last.ok) =>
        /\ HasRef(repo)
        /\ ObjectPath(RefHash(repo)) \notin DOMAIN repo_last.before.objects
        /\ \E read \in {read_object(repo.objects, RefHash(repo))} :
              /\ read.ok
              /\ read.object.kind = "commit"
              /\ read.object.parents =
                     (IF HasRef(repo_last.before)
                      THEN <<RefHash(repo_last.before)>> ELSE <<>>)
              /\ \E tree \in {read_object(repo.objects, read.object.tree)} :
                    /\ tree.ok
                    /\ tree.object.kind = "tree"
                    /\ Len(tree.object.entries) = Len(IndexEntriesOf(repo))
                    /\ PathsOf(tree.object.entries) =
                          {TreeEntry(e.mode, e.path, e.object_hash) :
                              e \in PathsOf(IndexEntriesOf(repo))}
        /\ ChainFrom(repo, RefHash(repo), MaxChain + 1) = Cardinality(CommitsIn(repo))

\* the second commit, of an index of two entries, after a first
C26_Witness ==
    /\ repo_last.op = "commit"
    /\ repo_last.ok
    /\ HasRef(repo_last.before)
    /\ Len(IndexEntriesOf(repo)) = 2
    /\ read_object(repo.objects, RefHash(repo)).object.parents
          = <<RefHash(repo_last.before)>>
    /\ ChainFrom(repo, RefHash(repo), MaxChain + 1) = 2

\* C28: after any sequence of add invocations (one that names the same file
\* more than once and one that adds a staged file again included) the index
\* holds at most one entry for a path.
C28_OneEntryPerPath ==
    \A p \in RepoPaths : Len(EntriesOf(repo, p)) <= 1

\* what does hold: an add that names no file twice leaves one entry at most
\* for a path that had one at most
C28_OneEntryPerPath_NamedOnce ==
    (/\ repo_last.op = "add"
     /\ \A i, j \in 1..Len(repo_last.paths) :
           repo_last.paths[i] = repo_last.paths[j] => i = j
     /\ \A p \in RepoPaths : Len(EntriesOf(repo_last.before, p)) <= 1)
    => C28_OneEntryPerPath

\* the object file of a hash exists in the object store
ObjectExists(files, hash) == ObjectPath(hash) \in DOMAIN files.objects

\* C29: in every state reached by adds and commits, the object hash of every
\* entry of the index names an object file that exists, and the branch file,
\* when there is one, names a commit object that exists, whose tree object
\* exists, and every blob the tree names exists.
C29_StagedAndCommittedObjectsExist ==
    /\ \A e \in PathsOf(IndexEntriesOf(repo)) : ObjectExists(repo, e.object_hash)
    /\ HasRef(repo) =>
          \E read \in {read_object(repo.objects, RefHash(repo))} :
             /\ read.ok
             /\ read.object.kind = "commit"
             /\ \E tree \in {read_object(repo.objects, read.object.tree)} :
                   /\ tree.ok
                   /\ tree.object.kind = "tree"
                   /\ \A t \in PathsOf(tree.object.entries) :
                         ObjectExists(repo, t.hash)

\* two commits were made of a staged file, and the file was written again
\* since it was staged: its entry names the blob of what the file held
C29_Witness ==
    /\ HasRef(repo)
    /\ Cardinality(CommitsIn(repo)) = 2
    /\ IndexEntriesOf(repo) # <<>>
    /\ read_object(repo.objects,
                   read_object(repo.objects, RefHash(repo)).object.tree).object.entries
          # <<>>
    /\ \E e \in PathsOf(IndexEntriesOf(repo)) :
          /\ e.path \in DOMAIN repo.wt
          /\ e.object_hash # hash_from_reader(repo.wt[e.path].data).hash
          /\ ObjectExists(repo, e.object_hash)

\* the (path, object hash) pairs of the entries of the index
IndexPairs(files) ==
    {<<e.path, e.object_hash>> : e \in PathsOf(IndexEntriesOf(files))}

\* the (path, hash) pairs of the tree of the commit the branch names; none
\* when no commit was made
LastCommitPairs(files) ==
    IF ~HasRef(files) THEN {}
    ELSE With(read_object(files.objects,
                          read_object(files.objects, RefHash(files)).object.tree),
              LAMBDA tree :
         {<<t.path, t.hash>> : t \in PathsOf(tree.object.entries)})

\* status has found nothing to commit: every record it made is Unchanged
NothingToCommit ==
    /\ pc = "done"
    /\ repo_last.op = "status"
    /\ repo_last.ok
    /\ \A i \in 1..Len(file_statuses) : file_statuses[i].status = "Unchanged"

\* C30: whenever status reports that there is nothing to commit, the (path,
\* object hash) pairs of the index are the (path, hash) pairs of the tree of
\* the last commit.
C30_NothingToCommitIndexIsLastTree ==
    NothingToCommit => IndexPairs(repo) = LastCommitPairs(repo)


====
